---- MODULE Spec2Model ----
(***************************************************************************)
(* Model of the hinow orchestration loop: the session record kept in the   *)
(* game_sessions table, the execute-tool-calls edge function (the          *)
(* Tool-Call Executor) that applies one batch of tool calls to it, the     *)
(* orchestrate-changes edge function (the Orchestrator) that asks the      *)
(* model for the batch, the initialize-game edge function that creates or  *)
(* replaces the plan, and the page that hands the batch to the Executor,   *)
(* renders the fragments in a sandbox and forwards the errors of the game. *)
(*                                                                         *)
(* Text is a sequence of tokens.  A token is a string that stands for a    *)
(* run of characters no regular expression of the source can split: a      *)
(* newline, a quote character, an asset name, a tag.  null and '' are      *)
(* both falsy in the source and are nowhere told apart, so both are the    *)
(* empty sequence.  Asset names are identifiers (letters, digits, '_').    *)
(***************************************************************************)
EXTENDS Integers, Sequences, FiniteSets, TLC

VARIABLES db, run, calls, page

vars == <<db, run, calls, page>>

(***************************************************************************)
(* Bounds of the model.                                                    *)
(***************************************************************************)
MaxOps == 3

MaxLine == 3

MaxTextLen == 5

MaxGameErrors == 1

(***************************************************************************)
(* Tokens.                                                                 *)
(***************************************************************************)
NL == "\n"

SQ == "'"

DQ == "\""

LB == "{{"

RB == "}}"

PNG == ".png"

CssUrlOpen == "url("

CssUrlClose == ")"

Doctype == "<!DOCTYPE html>"

ScriptLocal == "<script src='game.js'>"

ScriptLocalDefer == "<script defer src='game.js'>"

ScriptCdn == "<script src='https://cdn/three.js'>"

LinkLocal == "<link rel='stylesheet' href='style.css'>"

ImgLocal == "<img src='ship.png'>"

ImgData == "<img src='data:image/png;base64,AA'>"

Names == {"ship", "rock"}

\* supabase.storage.getPublicUrl(`${sessionId}/${name}.png`)
publicUrl(sessionId, name) ==
  IF name = "ship" THEN "https://x/s1/ship.png" ELSE "https://x/s1/rock.png"

(***************************************************************************)
(* String helpers of the JavaScript runtime, on token sequences.           *)
(***************************************************************************)
Min(S) == CHOOSE x \in S : \A y \in S : x <= y

\* code.split('\n'): always at least one line; ''.split('\n') is ['']
RECURSIVE split(_)
split(code) ==
  LET nls == {i \in 1..Len(code) : code[i] = NL}
  IN IF nls = {} THEN <<code>>
     ELSE LET i == Min(nls)
          IN <<SubSeq(code, 1, i - 1)>> \o split(SubSeq(code, i + 1, Len(code)))

\* lines.join('\n')
RECURSIVE join(_)
join(lines) ==
  IF Len(lines) = 0 THEN <<>>
  ELSE IF Len(lines) = 1 THEN lines[1]
  ELSE lines[1] \o <<NL>> \o join(Tail(lines))

\* does pat occur in text at position i
MatchAt(text, i, pat) ==
  /\ i + Len(pat) - 1 <= Len(text)
  /\ \A k \in 1..Len(pat) : text[i + k - 1] = pat[k]

\* text.replace(/.../g, repl) for a pattern given as the set of token
\* sequences it matches: leftmost match first, the scan resumes after the
\* replaced match, and the replacement is not scanned again
RECURSIVE replaceAllFrom(_, _, _, _)
replaceAllFrom(text, i, pats, repl) ==
  IF i > Len(text) THEN <<>>
  ELSE LET hits == {p \in pats : MatchAt(text, i, p)}
       IN IF hits # {}
          THEN LET p == CHOOSE q \in hits : TRUE
               IN repl \o replaceAllFrom(text, i + Len(p), pats, repl)
          ELSE <<text[i]>> \o replaceAllFrom(text, i + 1, pats, repl)

replaceAll(text, pats, repl) == replaceAllFrom(text, 1, pats, repl)

\* text.includes(pattern) / pattern.test(text)
Contains(text, pats) ==
  \E i \in 1..Len(text) : \E p \in pats : MatchAt(text, i, p)

(***************************************************************************)
(* Helpers of execute-tool-calls.                                          *)
(***************************************************************************)

\* a replaceLines whose splice removes one line too few
replaceLinesKeepsLast(code, start, end, newContent) ==
  LET lines == split(code)
      totalLines == Len(lines)
  IN IF start < 1 \/ end < 1
     THEN [result |-> code, error |-> "Invalid line numbers"]
     ELSE IF start > totalLines \/ end > totalLines
     THEN [result |-> code, error |-> "Line numbers out of range"]
     ELSE IF start > end
     THEN [result |-> code, error |-> "Invalid range"]
     ELSE LET newLines == split(newContent)
              spliced == SubSeq(lines, 1, start - 1) \o newLines
                           \o SubSeq(lines, end, totalLines)
          IN [result |-> join(spliced), error |-> ""]

\* a replaceLines that removes the range and puts the new lines at the end
replaceLinesAppends(code, start, end, newContent) ==
  LET lines == split(code)
      totalLines == Len(lines)
  IN IF start < 1 \/ end < 1
     THEN [result |-> code, error |-> "Invalid line numbers"]
     ELSE IF start > totalLines \/ end > totalLines
     THEN [result |-> code, error |-> "Line numbers out of range"]
     ELSE IF start > end
     THEN [result |-> code, error |-> "Invalid range"]
     ELSE LET newLines == split(newContent)
              spliced == SubSeq(lines, 1, start - 1)
                           \o SubSeq(lines, end + 1, totalLines) \o newLines
          IN [result |-> join(spliced), error |-> ""]

\* replaceLines(code, start, end, newContent, filePath): error "" is undefined
replaceLines(code, start, end, newContent) ==
  LET lines == split(code)
      totalLines == Len(lines)
  IN IF start < 1 \/ end < 1
     THEN [result |-> code, error |-> "Invalid line numbers"]
     ELSE IF start > totalLines \/ end > totalLines
     THEN [result |-> code, error |-> "Line numbers out of range"]
     ELSE IF start > end
     THEN [result |-> code, error |-> "Invalid range"]
     ELSE LET newLines == split(newContent)
              spliced == SubSeq(lines, 1, start - 1) \o newLines
                           \o SubSeq(lines, end + 1, totalLines)
          IN [result |-> join(spliced), error |-> ""]

\* the three regular expressions validateHTML counts with, as the sets of
\* tokens each matches
\* /<(?!\/|!)[a-z][a-z0-9]*[^>]*>/gi
OpenTags ==
  {"<div>", "<br/>", "<html>", "<head>", "<body>", ScriptLocal,
   ScriptLocalDefer, ScriptCdn, LinkLocal, ImgLocal, ImgData}

\* /<\/[a-z][a-z0-9]*>/gi
CloseTags == {"</div>", "</html>", "</head>", "</body>"}

\* /<[a-z][a-z0-9]*[^>]*\/>/gi
SelfClosingTags == {"<br/>"}

\* (html.match(re) || []).length
Count(text, toks) == Cardinality({i \in 1..Len(text) : text[i] \in toks})

\* validateHTML(html).valid
validateHTML(html) ==
  LET openTags == Count(html, OpenTags)
      closeTags == Count(html, CloseTags)
      selfClosingTags == Count(html, SelfClosingTags)
  IN /\ Contains(html, {<<Doctype>>})
     /\ Contains(html, {<<"<html>">>})
     /\ Contains(html, {<<"<head>">>})
     /\ Contains(html, {<<"<body>">>})
     /\ openTags - selfClosingTags = closeTags

\* p.toLowerCase() on the paths of the model
toLowerCase(p) ==
  IF p = "HTML_CODE" THEN "html_code"
  ELSE IF p = "Style.CSS" THEN "style.css"
  ELSE p

\* mapFilePath(p)
mapFilePath(p) ==
  IF p = "" THEN p
  ELSE LET lp == toLowerCase(p)
       IN IF lp = "html" \/ lp = "html_code" \/ lp = "index.html" THEN "html"
          ELSE IF lp = "css" \/ lp = "css_code" \/ lp = "style.css" THEN "css"
          ELSE IF lp = "js" \/ lp = "js_code" \/ lp = "script.js" \/ lp = "game.js"
          THEN "js"
          ELSE lp

\* externalRefs: the tokens one of the three patterns of write_file matches
\* (script files, CSS files, image files)
externalRefs(tok) == tok \in {ScriptLocal, LinkLocal, ImgLocal}

hasExternalRefs(content) == \E i \in 1..Len(content) : externalRefs(content[i])

\* STAGE 2 patterns for one asset name, in the order of the source
patterns(name) ==
  << {<<LB, name, RB>>},
     {<<SQ, name, PNG, SQ>>, <<DQ, name, PNG, DQ>>},
     {<<SQ, name, SQ>>, <<DQ, name, DQ>>} >>

\* for (const pattern of patterns) if (code) code = code.replace(pattern, repl)
replacePlaceholders(code, name, repl) ==
  LET pats == patterns(name)
      step(c, k) == IF c # <<>> THEN replaceAll(c, pats[k], repl) ELSE c
  IN step(step(step(code, 1), 2), 3)

quotedUrl(url) == <<SQ, url, SQ>>

cssUrl(url) == <<CssUrlOpen, SQ, url, SQ, CssUrlClose>>

\* STAGE 2 for the whole imageUrlMap (a sequence of [name, url], in
\* insertion order) on one fragment; css tells which replacement is used
RECURSIVE substituteAll(_, _, _)
substituteAll(code, imageUrlMap, css) ==
  IF imageUrlMap = <<>> THEN code
  ELSE LET e == Head(imageUrlMap)
           repl == IF css THEN cssUrl(e.url) ELSE quotedUrl(e.url)
       IN substituteAll(replacePlaceholders(code, e.name, repl),
                        Tail(imageUrlMap), css)

\* imageUrlMap.set(name, url)
mapSet(imageUrlMap, name, url) ==
  IF \E k \in 1..Len(imageUrlMap) : imageUrlMap[k].name = name
  THEN [k \in 1..Len(imageUrlMap) |->
          IF imageUrlMap[k].name = name THEN [name |-> name, url |-> url]
          ELSE imageUrlMap[k]]
  ELSE Append(imageUrlMap, [name |-> name, url |-> url])

\* if (!asset_urls.includes(publicUrl)) asset_urls.push(publicUrl)
\* an append that does not look for the url
pushAlways(asset_urls, url) == Append(asset_urls, url)

pushIfAbsent(asset_urls, url) ==
  IF \E k \in 1..Len(asset_urls) : asset_urls[k] = url THEN asset_urls
  ELSE Append(asset_urls, url)

\* one entry of actionsSummary: the fixed text of the line (kind), the file,
\* image or tool it names (arg), the line range and the error message in it
Line(kind, arg) == [kind |-> kind, arg |-> arg, s |-> 0, e |-> 0, msg |-> ""]

LineRange(kind, arg, s, e) ==
  [kind |-> kind, arg |-> arg, s |-> s, e |-> e, msg |-> ""]

LineMsg(kind, arg, msg) ==
  [kind |-> kind, arg |-> arg, s |-> 0, e |-> 0, msg |-> msg]

(***************************************************************************)
(* Tool calls (the elements of body.toolCalls).  file_path, name and       *)
(* prompt "" stand for a missing parameter; hasContent and hasLines tell   *)
(* whether content and start_line/end_line are defined.                    *)
(***************************************************************************)
ToolCall(tool, fp, c, hasC, sl, el, hasL, n, pr) ==
  [tool_name |-> tool, file_path |-> fp, content |-> c, hasContent |-> hasC,
   start_line |-> sl, end_line |-> el, hasLines |-> hasL, name |-> n,
   prompt |-> pr]

WriteFile(fp, c) == ToolCall("write_file", fp, c, TRUE, 0, 0, FALSE, "", "")

ReplaceLinesCall(fp, sl, el, c) ==
  ToolCall("replace_lines", fp, c, TRUE, sl, el, TRUE, "", "")

GenerateImage(n, pr) ==
  ToolCall("generate_image", "", <<>>, FALSE, 0, 0, FALSE, n, pr)

NoParams(tool) == ToolCall(tool, "", <<>>, FALSE, 0, 0, FALSE, "", "")

\* toolCalls.filter(call => call.tool_name === 'generate_image')
imageGenerationCalls(toolCalls) ==
  SelectSeq(toolCalls, LAMBDA c : c.tool_name = "generate_image")

\* a STAGE 3 loop over the whole list
allCalls(toolCalls) == toolCalls

\* toolCalls.filter(call => call.tool_name !== 'generate_image')
codeModificationCalls(toolCalls) ==
  SelectSeq(toolCalls, LAMBDA c : c.tool_name # "generate_image")

(***************************************************************************)
(* STAGE 3: one iteration of the code modification loop on the locals L of *)
(* the handler; thrown is set when the iteration throws.                   *)
(***************************************************************************)
say(L, line) == [L EXCEPT !.actionsSummary = Append(@, line)]

\* a write_file branch that takes an empty content for a content
write_fileTakesEmpty(L, op) ==
  IF op.file_path = "" \/ ~op.hasContent
  THEN say(L, Line("Skipped write_file", ""))
  ELSE LET fp == mapFilePath(op.file_path)
       IN IF fp = "html" /\ hasExternalRefs(op.content)
          THEN [say(L, Line("ERROR: external references", fp))
                  EXCEPT !.thrown = TRUE]
          ELSE say([L EXCEPT
                      !.html_code = IF fp = "html" THEN op.content ELSE @,
                      !.css_code = IF fp = "css" THEN op.content ELSE @,
                      !.js_code = IF fp = "js" THEN op.content ELSE @],
                   Line("Wrote content to", fp))

\* the write_file branch: if (!file_path || !content) skips
write_file(L, op) ==
  IF op.file_path = "" \/ ~op.hasContent \/ op.content = <<>>
  THEN say(L, Line("Skipped write_file", ""))
  ELSE LET fp == mapFilePath(op.file_path)
       IN IF fp = "html" /\ hasExternalRefs(op.content)
          THEN [say(L, Line("ERROR: external references", fp))
                  EXCEPT !.thrown = TRUE]
          ELSE say([L EXCEPT
                      !.html_code = IF fp = "html" THEN op.content ELSE @,
                      !.css_code = IF fp = "css" THEN op.content ELSE @,
                      !.js_code = IF fp = "js" THEN op.content ELSE @],
                   Line("Wrote content to", fp))

\* a rollback that keeps the structure fragment as it was before the
\* operation
rollbackToPrevious(L) == L

\* "Rollback HTML": html_code = backup_html
rollback(L) == [L EXCEPT !.html_code = L.backup_html]

replace_lines(L, op) ==
  IF op.file_path = "" \/ ~op.hasLines \/ ~op.hasContent
  THEN say(L, Line("Skipped replace_lines", ""))
  ELSE
    LET fp == mapFilePath(op.file_path)
        sl == op.start_line
        el == op.end_line
        failed(r) == say(L, [LineRange("ERROR replacing lines", fp, sl, el)
                               EXCEPT !.msg = r.error])
        replaced(M) == say(M, LineRange("Replaced lines", fp, sl, el))
    IN IF fp = "html" /\ L.html_code # <<>>
       THEN LET r == replaceLines(L.html_code, sl, el, op.content)
            IN IF r.error # "" THEN failed(r)
               ELSE IF ~validateHTML(r.result)
               THEN say(say(rollback(L),
                            Line("WARNING: HTML validation failed", fp)),
                        Line("Rolled back HTML", fp))
               ELSE replaced([L EXCEPT !.html_code = r.result])
       ELSE IF fp = "css" /\ L.css_code # <<>>
       THEN LET r == replaceLines(L.css_code, sl, el, op.content)
            IN IF r.error # "" THEN failed(r)
               ELSE replaced([L EXCEPT !.css_code = r.result])
       ELSE IF fp = "js" /\ L.js_code # <<>>
       THEN LET r == replaceLines(L.js_code, sl, el, op.content)
            IN IF r.error # "" THEN failed(r)
               ELSE replaced([L EXCEPT !.js_code = r.result])
       ELSE replaced(L)

\* a loop in which an unknown tool ends the batch
codeModificationStrict(L, op) ==
  IF op.tool_name = "write_file" THEN write_file(L, op)
  ELSE IF op.tool_name = "replace_lines" THEN replace_lines(L, op)
  ELSE [say(L, Line("Skipped unknown tool", op.tool_name)) EXCEPT !.thrown = TRUE]

\* the body of the loop: write_file, replace_lines or an unknown tool
codeModification(L, op) ==
  IF op.tool_name = "write_file" THEN write_file(L, op)
  ELSE IF op.tool_name = "replace_lines" THEN replace_lines(L, op)
  ELSE say(L, Line("Skipped unknown tool", op.tool_name))

(***************************************************************************)
(* State.  db is the game_sessions table (session id -> row); run holds,   *)
(* per invocation of execute-tool-calls, the request body, the handler's   *)
(* local variables, its position pc and the HTTP status it answered with   *)
(* (0: no response yet) and the error message of a 500 response.           *)
(* imageRequests lists the names the run has asked the image collaborator  *)
(* for, one entry per request.                                             *)
(***************************************************************************)
Row(html, css, js, assets, history, status) ==
  [game_plan |-> "plan", html_code |-> html, css_code |-> css, js_code |-> js,
   asset_urls |-> assets, chat_history |-> history, error_log |-> "",
   status |-> status, user_prompt |-> "make a game"]

Turn(role, content) == [role |-> role, content |-> content]

DefaultChatResponse == "I've updated your game with the requested changes."

Body(sessionId, toolCalls, isArray) ==
  [sessionId |-> sessionId, toolCalls |-> toolCalls, isArray |-> isArray]

NewRun(body) ==
  [pc |-> "request", body |-> body, i |-> 1, html_code |-> <<>>,
   css_code |-> <<>>, js_code |-> <<>>, asset_urls |-> <<>>,
   chat_history |-> <<>>, backup_html |-> <<>>, imageUrlMap |-> <<>>,
   actionsSummary |-> <<>>, thrown |-> FALSE, imageRequests |-> <<>>,
   assistantChatResponse |-> DefaultChatResponse, status |-> 0, error |-> ""]

\* return new Response(..., { status })
respond(R, status) == [R EXCEPT !.pc = "responded", !.status = status]

\* the catch handler's response: { error: error.message }, status 500
respondError(R, message) == [respond(R, 500) EXCEPT !.error = message]

\* a catch handler that saves the fragments the failed batch had reached
catchHandlerSaves(table, R) ==
  IF R.body.sessionId \in DOMAIN table
  THEN [table EXCEPT ![R.body.sessionId].html_code = R.html_code,
                     ![R.body.sessionId].css_code = R.css_code,
                     ![R.body.sessionId].js_code = R.js_code]
  ELSE table

\* what the catch handler of serve does to the table
catchHandler(table, R) == table

\* what STAGE 1 does to the table for one generated image
imageStageStore(table, R) == table

\* the errors generateAndStoreImage throws, by cause
ImageOutcomes == {"ok", "429", "402", "500", "upload"}

imageErrorMessage(outcome) ==
  IF outcome = "429" THEN "Rate limit exceeded for image generation"
  ELSE IF outcome = "402" THEN "Payment required"
  ELSE IF outcome = "500" THEN "Image generation failed: 500"
  ELSE "uploadError"

\* request validation and "Fetch current code and assets"
ExecFetchSession(r) ==
  /\ run[r].pc = "request"
  /\ calls' = calls
  /\ page' = page
  /\ LET R == run[r]
         sid == R.body.sessionId
     IN IF sid = "" \/ ~R.body.isArray
        THEN /\ run' = [run EXCEPT ![r] = respond(R, 400)]
             /\ db' = db
        ELSE IF sid \notin DOMAIN db
        THEN /\ run' = [run EXCEPT ![r] = respondError(R, "Session not found")]
             /\ db' = catchHandler(db, R)
        ELSE /\ run' = [run EXCEPT ![r] =
                  [R EXCEPT !.pc = "images",
                            !.html_code = db[sid].html_code,
                            !.css_code = db[sid].css_code,
                            !.js_code = db[sid].js_code,
                            !.asset_urls = db[sid].asset_urls,
                            !.chat_history = db[sid].chat_history,
                            !.backup_html = db[sid].html_code]]
             /\ db' = db

\* generateAndStoreImage: the request to the image collaborator
requestImage(R, op) == [R EXCEPT !.imageRequests = Append(@, op.name)]

\* an image stage in which a failed generation is not caught
imageGenerationAborts(R, op, outcome) ==
  IF op.name = "" \/ op.prompt = ""
  THEN say(R, Line("Skipped an image generation call", ""))
  ELSE IF outcome = "ok"
  THEN LET url == publicUrl(R.body.sessionId, op.name)
       IN say([requestImage(R, op) EXCEPT
                 !.imageUrlMap = mapSet(@, op.name, url),
                 !.asset_urls = pushIfAbsent(@, url)],
              Line("Generated image", op.name))
  ELSE respondError(say(requestImage(R, op),
                        LineMsg("Failed to generate image", op.name,
                                imageErrorMessage(outcome))),
                    imageErrorMessage(outcome))

\* an image stage that asks once more after a failure
imageGenerationRetries(R, op, outcome) ==
  IF op.name = "" \/ op.prompt = ""
  THEN say(R, Line("Skipped an image generation call", ""))
  ELSE IF outcome = "ok"
  THEN LET url == publicUrl(R.body.sessionId, op.name)
       IN say([requestImage(R, op) EXCEPT
                 !.imageUrlMap = mapSet(@, op.name, url),
                 !.asset_urls = pushIfAbsent(@, url)],
              Line("Generated image", op.name))
  ELSE say(requestImage(requestImage(R, op), op),
           LineMsg("Failed to generate image", op.name,
                   imageErrorMessage(outcome)))

\* image outcome for one generate_image call of STAGE 1
imageGeneration(R, op, outcome) ==
  IF op.name = "" \/ op.prompt = ""
  THEN say(R, Line("Skipped an image generation call", ""))
  ELSE IF outcome = "ok"
  THEN LET url == publicUrl(R.body.sessionId, op.name)
       IN say([requestImage(R, op) EXCEPT
                 !.imageUrlMap = mapSet(@, op.name, url),
                 !.asset_urls = pushIfAbsent(@, url)],
              Line("Generated image", op.name))
  ELSE say(requestImage(R, op),
           LineMsg("Failed to generate image", op.name,
                   imageErrorMessage(outcome)))

\* STAGE 1: one iteration of the image generation loop
ExecImage(r) ==
  /\ run[r].pc = "images"
  /\ calls' = calls
  /\ page' = page
  /\ run[r].i <= Len(imageGenerationCalls(run[r].body.toolCalls))
  /\ LET R == run[r]
         op == imageGenerationCalls(R.body.toolCalls)[R.i]
     IN \E outcome \in ImageOutcomes :
          /\ run' = [run EXCEPT ![r] =
               [imageGeneration(R, op, outcome) EXCEPT !.i = R.i + 1]]
          /\ db' = imageStageStore(db, run'[r])

\* a STAGE 2 for every image the run asked for, generated or not
substitutionOfRequested(R) ==
  LET asked == [k \in 1..Len(R.imageRequests) |->
                  [name |-> R.imageRequests[k],
                   url |-> publicUrl(R.body.sessionId, R.imageRequests[k])]]
  IN IF Len(asked) > 0
     THEN say([R EXCEPT
                 !.html_code = substituteAll(@, asked, FALSE),
                 !.css_code = substituteAll(@, asked, TRUE),
                 !.js_code = substituteAll(@, asked, FALSE)],
              LineRange("Replaced image placeholders", "", Len(asked), 0))
     ELSE R

\* STAGE 2 on the locals
substitution(R) ==
  IF Len(R.imageUrlMap) > 0
  THEN say([R EXCEPT
              !.html_code = substituteAll(@, R.imageUrlMap, FALSE),
              !.css_code = substituteAll(@, R.imageUrlMap, TRUE),
              !.js_code = substituteAll(@, R.imageUrlMap, FALSE)],
           LineRange("Replaced image placeholders", "", Len(R.imageUrlMap), 0))
  ELSE R

\* STAGE 2: placeholder substitution, after the last image call
ExecSubstitute(r) ==
  /\ run[r].pc = "images"
  /\ calls' = calls
  /\ page' = page
  /\ run[r].i > Len(imageGenerationCalls(run[r].body.toolCalls))
  /\ run' = [run EXCEPT ![r] = [substitution(run[r]) EXCEPT !.pc = "code", !.i = 1]]
  /\ db' = db

\* STAGE 3: one iteration of the code modification loop
ExecCodeOp(r) ==
  /\ run[r].pc = "code"
  /\ calls' = calls
  /\ page' = page
  /\ run[r].i <= Len(codeModificationCalls(run[r].body.toolCalls))
  /\ LET R == run[r]
         op == codeModificationCalls(R.body.toolCalls)[R.i]
         M == codeModification(R, op)
     IN IF M.thrown
        THEN /\ run' = [run EXCEPT ![r] =
                  respondError(M, "HTML contains references to external files")]
             /\ db' = catchHandler(db, M)
        ELSE /\ run' = [run EXCEPT ![r] = [M EXCEPT !.i = R.i + 1]]
             /\ db' = db

\* what the request to the summarizer ends in: a text, a rejected fetch, a
\* response that is not ok, a response without choices[0].message.content
SummarizerOutcomes == {"ok", "transport", "status", "notext"}

\* a summarizer call whose rejected fetch is not caught
summarizeThrows(R, outcome) ==
  IF outcome = "ok"
  THEN [R EXCEPT !.pc = "commit", !.assistantChatResponse = "summary"]
  ELSE IF outcome = "transport" THEN respondError(R, "fetch failed")
  ELSE [R EXCEPT !.pc = "commit"]

\* "Generate chat_response using summarizer": any failure keeps the default
summarize(R, outcome) ==
  [R EXCEPT !.pc = "commit",
            !.assistantChatResponse = IF outcome = "ok" THEN "summary" ELSE @]

ExecSummarize(r) ==
  /\ run[r].pc = "code"
  /\ calls' = calls
  /\ page' = page
  /\ run[r].i > Len(codeModificationCalls(run[r].body.toolCalls))
  /\ \E outcome \in SummarizerOutcomes :
       run' = [run EXCEPT ![r] = summarize(run[r], outcome)]
  /\ db' = db

\* the row written by "Commit all changes to database"
\* a terminal update that leaves the history as it is
committedRowNoTurn(row, R) ==
  [row EXCEPT !.html_code = R.html_code,
              !.css_code = R.css_code,
              !.js_code = R.js_code,
              !.asset_urls = R.asset_urls,
              !.status = "coding_complete"]

\* a terminal update that also clears the error report
committedRowClearsErrors(row, R) ==
  [row EXCEPT !.html_code = R.html_code,
              !.css_code = R.css_code,
              !.js_code = R.js_code,
              !.asset_urls = R.asset_urls,
              !.chat_history =
                 Append(R.chat_history, Turn("assistant", R.assistantChatResponse)),
              !.error_log = "",
              !.status = "coding_complete"]

committedRow(row, R) ==
  [row EXCEPT !.html_code = R.html_code,
              !.css_code = R.css_code,
              !.js_code = R.js_code,
              !.asset_urls = R.asset_urls,
              !.chat_history =
                 Append(R.chat_history, Turn("assistant", R.assistantChatResponse)),
              !.status = "coding_complete"]

\* the terminal update; updateError leaves the row as it was and is thrown
ExecCommit(r) ==
  /\ run[r].pc = "commit"
  /\ calls' = calls
  /\ page' = page
  /\ LET R == run[r]
         sid == R.body.sessionId
     IN \E updateError \in BOOLEAN :
          IF updateError
          THEN /\ run' = [run EXCEPT ![r] = respondError(R, "updateError")]
               /\ db' = catchHandler(db, R)
          ELSE /\ run' = [run EXCEPT ![r] = respond(R, 200)]
               /\ db' = IF sid \in DOMAIN db
                        THEN [db EXCEPT ![sid] = committedRow(@, R)]
                        ELSE db

(***************************************************************************)
(* orchestrate-changes and initialize-game.  calls holds, per invocation   *)
(* of one of the two functions, the request, the handler's locals, its     *)
(* position pc, the HTTP status it answered with (0: no response yet) and  *)
(* the message of the error it caught; modelCalls counts the requests of   *)
(* the invocation to the language model, errorLog is the error report of   *)
(* the request and error_log the one in the context sent to the model;     *)
(* userPrompt "" is a request without userPrompt, and a turn with content  *)
(* "" is a turn whose content is undefined.  A                             *)
(* message is a sequence of parts;                                         *)
(* the substrings the catch handler of orchestrate-changes looks for are   *)
(* parts of their own.                                                     *)
(***************************************************************************)
\* error.message?.includes(needle)
includes(message, needle) ==
  \E k \in 1..Len(message) : message[k] = needle

\* the response of the AI gateway: ok and status of the HTTP response, its
\* error text, and for a 200 the content of the message: kind is what the
\* text is ("prose", "badjson": starts with { and does not parse, "object"),
\* fenced whether it comes in a ```json block, operationsField what the
\* object has under "operations" ("array", "string", "missing")
Reply(ok, status, errorText, kind, fenced, operationsField, operations, thought, gamePlan, chat_response) ==
  [ok |-> ok, status |-> status, errorText |-> errorText, kind |-> kind,
   fenced |-> fenced, operationsField |-> operationsField,
   operations |-> operations, thought |-> thought, gamePlan |-> gamePlan,
   chat_response |-> chat_response]

NoReply == Reply(TRUE, 0, <<>>, "", FALSE, "", <<>>, "", "", "")

\* one element of parsedResponse.operations: the call, and whether it has a
\* parameters object (tool_name "" is a missing tool_name)
Operation(call, hasParameters) ==
  [call |-> call, hasParameters |-> hasParameters]

Call(fn, sessionId, userPrompt) ==
  [fn |-> fn, sessionId |-> sessionId, userPrompt |-> userPrompt,
   pc |-> "request", chat_history |-> <<>>, reply |-> NoReply,
   toolCalls |-> <<>>, chatResponse |-> "", gamePlan |-> "", status |-> 0,
   error |-> <<>>, handed |-> FALSE, modelCalls |-> 0, errorLog |-> "",
   error_log |-> ""]

\* normalizeFilePath(path)
normalizeFilePath(path) ==
  IF path = "" THEN path
  ELSE LET lp == toLowerCase(path)
       IN IF lp = "html" \/ lp = "html_code" \/ lp = "index.html"
          THEN "html_code"
          ELSE IF lp = "css" \/ lp = "css_code" \/ lp = "style.css"
                    \/ lp = "styles.css"
          THEN "css_code"
          ELSE IF lp = "js" \/ lp = "js_code" \/ lp = "script.js"
                    \/ lp = "game.js" \/ lp = "main.js"
          THEN "js_code"
          ELSE lp

validPaths == {"html_code", "css_code", "js_code"}

\* "Validate and normalize operations array", from index i on: the message
\* of the error thrown (<<>>: none) and the normalized calls
RECURSIVE validateOperations(_, _)
validateOperations(operations, i) ==
  IF operations = <<>> THEN [error |-> <<>>, toolCalls |-> <<>>]
  ELSE
    LET op == Head(operations)
        path == op.call.file_path
        normalized == normalizeFilePath(path)
        checked == (op.call.tool_name = "write_file"
                      \/ op.call.tool_name = "replace_lines") /\ path # ""
    IN IF op.call.tool_name = "" \/ ~op.hasParameters
       THEN [error |-> <<"Operation ", ToString(i),
                         " is missing \"tool_name\" or \"parameters\" field">>,
             toolCalls |-> <<>>]
       ELSE IF checked /\ normalized \notin validPaths
       THEN [error |-> <<"Invalid file_path \"", path,
                         "\". Only html_code, css_code, and js_code are allowed. Do not create external files like game.js or style.css - all code must be inline.">>,
             toolCalls |-> <<>>]
       ELSE LET rest == validateOperations(Tail(operations), i + 1)
                call == IF checked THEN [op.call EXCEPT !.file_path = normalized]
                        ELSE op.call
            IN IF rest.error # <<>> THEN rest
               ELSE [error |-> <<>>, toolCalls |-> <<call>> \o rest.toolCalls]

\* "Create a user-friendly chat response": 'Working on it! ' and the first
\* sentence of the thought (the replies of the model carry no plan)
chatResponse(thought) ==
  IF thought = "Adding the ship. It flies."
  THEN "Working on it! Adding the ship. "
  ELSE "Working on it! "

\* statusCode of the catch handler of orchestrate-changes
statusCode(message) ==
  IF includes(message, "429") \/ includes(message, "rate limit") THEN 429
  ELSE IF includes(message, "parse") \/ includes(message, "JSON") THEN 400
  ELSE IF includes(message, "operations") THEN 400
  ELSE 500

\* a catch handler that records the user's turn of the failed cycle
orchestrateCatchSavesTurn(table, C) ==
  IF C.sessionId \in DOMAIN table
  THEN [table EXCEPT ![C.sessionId].chat_history =
          Append(@, Turn("user", C.userPrompt))]
  ELSE table

\* what the catch handler of orchestrate-changes does to the table
orchestrateCatch(table, C) == table

\* the catch handler's response
orchestrateError(C, message) ==
  [C EXCEPT !.pc = "responded", !.status = statusCode(message),
            !.error = message]

\* the messages of the error of a select or update that finds no row; the
\* text is the store's
StoreErrors ==
  { <<"JSON", " object requested, multiple (or no) rows returned">>,
    <<"Cannot coerce the result to a single ", "JSON", " object">> }

\* from the response of the model to the validated operations
planNext(C, reply) ==
  LET D == [C EXCEPT !.reply = reply, !.modelCalls = @ + 1]
      parseError(detail, preview) ==
        <<"Failed to ", "parse", " AI response as ", "JSON", ": ", detail,
          "Response preview: ", preview>>
  IN IF ~reply.ok
     THEN orchestrateError(D, <<"AI API returned ", ToString(reply.status), ": ">>
                                \o reply.errorText)
     ELSE IF reply.kind = "prose"
     THEN orchestrateError(D, parseError("Response does not start with a JSON object",
                                         "Sorry, I cannot do that."))
     ELSE IF reply.kind = "badjson"
     THEN orchestrateError(D, parseError("Unexpected end of ", "{ \"thought\": "))
     ELSE IF reply.operationsField # "array"
     THEN orchestrateError(D, <<"AI response missing required \"", "operations",
                                "\" array. Response keys: ", "thought, plan">>)
     ELSE LET v == validateOperations(reply.operations, 0)
          IN IF v.error # <<>> THEN orchestrateError(D, v.error)
             ELSE [D EXCEPT !.pc = "update", !.toolCalls = v.toolCalls,
                            !.chatResponse = chatResponse(reply.thought)]

\* the responses of the gateway to orchestrate-changes
ModelReplies ==
  LET http(status, text) ==
        Reply(FALSE, status, text, "", FALSE, "", <<>>, "", "", "")
      content(kind, fenced, field, operations) ==
        Reply(TRUE, 200, <<>>, kind, fenced, field, operations,
              "Adding the ship. It flies.", "", "")
      css == WriteFile("styles.css", <<"a">>)
  IN { http(429, <<"Too Many Requests">>),
       http(402, <<"Payment required">>),
       http(500, <<"upstream timeout">>),
       content("prose", FALSE, "", <<>>),
       content("badjson", TRUE, "", <<>>),
       content("object", TRUE, "missing", <<>>),
       content("object", FALSE, "string", <<>>),
       content("object", TRUE, "array", <<Operation(css, FALSE)>>),
       content("object", TRUE, "array",
               <<Operation(css, TRUE), Operation(NoParams(""), TRUE)>>),
       content("object", TRUE, "array",
               <<Operation(WriteFile("sprites/ship.js", <<"a">>), TRUE)>>),
       content("object", FALSE, "array", <<>>),
       content("object", TRUE, "array", <<Operation(css, TRUE)>>),
       content("object", TRUE, "array",
               <<Operation(GenerateImage("ship", "a ship"), TRUE),
                 Operation(WriteFile("", <<"a">>), TRUE)>>) }

\* a sessionState without the errors
sessionStateNoErrorLog(errorLog, session) == ""

\* sessionState.error_log: errorLog || session.error_log
sessionStateErrorLog(errorLog, session) ==
  IF errorLog # "" THEN errorLog ELSE session.error_log

\* session fetch of orchestrate-changes and the context for the model
OrchFetchSession(o) ==
  /\ calls[o].fn = "orchestrate-changes"
  /\ calls[o].pc = "request"
  /\ run' = run
  /\ page' = page
  /\ LET C == calls[o]
     IN IF C.sessionId \notin DOMAIN db
        THEN /\ \E message \in StoreErrors :
                  calls' = [calls EXCEPT ![o] = orchestrateError(C, message)]
             /\ db' = orchestrateCatch(db, C)
        ELSE /\ calls' = [calls EXCEPT ![o] =
                  [C EXCEPT !.pc = "model",
                            !.chat_history = db[C.sessionId].chat_history,
                            !.error_log =
                               sessionStateErrorLog(C.errorLog, db[C.sessionId])]]
             /\ db' = db

\* the call of the model, the parse and the validation of its response
OrchModel(o) ==
  /\ calls[o].fn = "orchestrate-changes"
  /\ calls[o].pc = "model"
  /\ run' = run
  /\ page' = page
  /\ \E reply \in ModelReplies :
       LET D == planNext(calls[o], reply)
       IN /\ calls' = [calls EXCEPT ![o] = D]
          /\ db' = IF D.pc = "responded" THEN orchestrateCatch(db, D) ELSE db

\* [...session.chat_history, user turn, assistant turn]
interimHistory(C) ==
  LET updatedChatHistory == Append(C.chat_history, Turn("user", C.userPrompt))
  IN Append(updatedChatHistory, Turn("assistant", C.chatResponse))

\* "Update chat history with planning response" and the response; the
\* result of the update is not looked at
OrchUpdate(o) ==
  /\ calls[o].fn = "orchestrate-changes"
  /\ calls[o].pc = "update"
  /\ run' = run
  /\ page' = page
  /\ LET C == calls[o]
         sid == C.sessionId
     IN /\ \E updateError \in BOOLEAN :
             db' = IF updateError \/ sid \notin DOMAIN db THEN db
                   ELSE [db EXCEPT ![sid].chat_history = interimHistory(C),
                                   ![sid].status = "orchestrating"]
        /\ calls' = [calls EXCEPT ![o] =
                       [C EXCEPT !.pc = "responded", !.status = 200]]

\* Index.handleSendMessage: the toolCalls of the response of
\* orchestrate-changes are sent to execute-tool-calls
ClientExecute(o) ==
  /\ calls[o].fn = "orchestrate-changes"
  /\ calls[o].status = 200
  /\ ~calls[o].handed
  /\ o \notin DOMAIN run
  /\ run' = run @@ (o :> NewRun(Body(calls[o].sessionId, calls[o].toolCalls, TRUE)))
  /\ page' = page
  /\ calls' = [calls EXCEPT ![o].handed = TRUE]
  /\ db' = db

\* the responses of the gateway to initialize-game
PlanReplies ==
  LET http(status, text) ==
        Reply(FALSE, status, text, "", FALSE, "", <<>>, "", "", "")
      content(kind, fenced) ==
        Reply(TRUE, 200, <<>>, kind, fenced, "", <<>>, "", "plan B",
              "Here is the new plan.")
  IN { http(429, <<"Too Many Requests">>),
       content("empty", FALSE),
       content("object", FALSE),
       content("badjson", TRUE),
       content("object", TRUE) }

\* initialize-game: the call of the model and the extraction of the plan
IniModel(i) ==
  /\ calls[i].fn = "initialize-game"
  /\ calls[i].pc = "request"
  /\ run' = run
  /\ page' = page
  /\ db' = db
  /\ \E reply \in PlanReplies :
       LET C == [calls[i] EXCEPT !.reply = reply]
           fail(message) == [C EXCEPT !.pc = "responded", !.status = 500,
                                      !.error = message]
       IN calls' = [calls EXCEPT ![i] =
            IF ~reply.ok
            THEN fail(<<"AI Gateway returned ", ToString(reply.status), ": ">>
                        \o reply.errorText)
            ELSE IF reply.kind = "empty"
            THEN fail(<<"AI response missing content">>)
            ELSE IF ~reply.fenced
            THEN fail(<<"Failed to extract game plan from AI response">>)
            ELSE IF reply.kind = "badjson"
            THEN fail(<<"Unexpected end of ", "JSON", " input">>)
            ELSE [C EXCEPT !.pc = "store", !.gamePlan = reply.gamePlan,
                           !.chatResponse = reply.chat_response]]

\* gen_random_uuid()
SessionIds == {"s1", "s2", "s3"}

newSessionId(table) == CHOOSE id \in SessionIds : id \notin DOMAIN table

\* an update that appends the exchange to the stored history
planColumnsAppend(row, C) ==
  [row EXCEPT !.game_plan = C.gamePlan,
              !.status = "planning_complete",
              !.user_prompt = C.userPrompt,
              !.chat_history = @ \o <<Turn("user", C.userPrompt),
                                      Turn("assistant", C.chatResponse)>>]

\* the columns initialize-game writes
planColumns(row, C) ==
  [row EXCEPT !.game_plan = C.gamePlan,
              !.status = "planning_complete",
              !.user_prompt = C.userPrompt,
              !.chat_history = <<Turn("user", C.userPrompt),
                                 Turn("assistant", C.chatResponse)>>]

\* initialize-game: update of the session of the request, or insert
IniStore(i) ==
  /\ calls[i].fn = "initialize-game"
  /\ calls[i].pc = "store"
  /\ run' = run
  /\ page' = page
  /\ LET C == calls[i]
         sid == C.sessionId
         fail(message) == [C EXCEPT !.pc = "responded", !.status = 500,
                                    !.error = message]
         done(id) == [C EXCEPT !.pc = "responded", !.status = 200,
                               !.sessionId = id]
     IN \E error \in BOOLEAN :
          IF error
          THEN /\ calls' = [calls EXCEPT ![i] = fail(<<"storeError">>)]
               /\ db' = db
          ELSE IF sid # "" /\ sid \notin DOMAIN db
          THEN /\ \E message \in StoreErrors :
                    calls' = [calls EXCEPT ![i] = fail(message)]
               /\ db' = db
          ELSE IF sid # ""
          THEN /\ calls' = [calls EXCEPT ![i] = done(sid)]
               /\ db' = [db EXCEPT ![sid] = planColumns(@, C)]
          ELSE LET id == newSessionId(db)
               IN /\ calls' = [calls EXCEPT ![i] = done(id)]
                  /\ db' = db @@ (id :> planColumns(
                              Row(<<>>, <<>>, <<>>, <<>>, <<>>, "initial"), C))

(***************************************************************************)
(* The page.  page holds the state of Index (sessionId), the props of      *)
(* GameSandbox (htmlCode, cssCode, jsCode), which of the two versions of   *)
(* the component the build holds (component), the document of the last     *)
(* render (constructedHtml, <<>> is ""), whether the props have been       *)
(* rendered, the errors the render passed to onError (diagnostics), the    *)
(* errors handleError has still to handle (reports) and the number of      *)
(* game_error messages the rendered game has posted.                       *)
(***************************************************************************)
\* the fixed text of the template, between the parts it interpolates
TplHead == "<!DOCTYPE html>\n<html>\n<head>...<style>\n    body { margin: 0; padding: 0; overflow: hidden; }\n    "

TplBody == "\n  </style>\n</head>\n<body>\n  "

TplScript == "\n  <script>...// Game code\n    "

TplTail == "\n  </script>\n</body>\n</html>"

\* the tokens that contain '<html', and the tags /<script[^>]*>/ and
\* /<div[^>]*>/ match
HtmlTags == {"<html>", "<html lang='en'>"}

ScriptTags == {"<script>", ScriptLocal, ScriptLocalDefer, ScriptCdn}

DivTags == {"<div>", "<div id='game'>"}

\* html.indexOf(token): the position of the first occurrence, or -1
indexOf(html, toks) ==
  IF \E i \in 1..Len(html) : html[i] \in toks
  THEN Min({i \in 1..Len(html) : html[i] \in toks})
  ELSE -1

\* validateFragment(html) of the component with fragment validation
validateFragment(html) ==
  (IF Count(html, {Doctype}) > 0
   THEN <<"FRAGMENT ERROR: html_code should not contain <!DOCTYPE html>">>
   ELSE <<>>)
  \o (IF Count(html, HtmlTags) > 0
      THEN <<"FRAGMENT ERROR: html_code should not contain <html> tag">>
      ELSE <<>>)
  \o (IF Count(html, {"<head>"}) > 0
      THEN <<"FRAGMENT ERROR: html_code should not contain <head> tag">>
      ELSE <<>>)
  \o (IF Count(html, {"<body>"}) > 0
      THEN <<"FRAGMENT ERROR: html_code should not contain <body> tag">>
      ELSE <<>>)

\* validateAssembledHTML on the assembled document, whose template has no
\* div and one script tag in its body (the counts in the message are left
\* out)
validateAssembledHTML(htmlCode, cssCode, jsCode) ==
  LET parts == cssCode \o htmlCode \o jsCode
      scriptTagsInBody == 1 + Count(htmlCode \o jsCode, ScriptTags)
  IN (IF Count(parts, DivTags) # Count(parts, {"</div>"})
      THEN <<"ASSEMBLED HTML: Unclosed div tags">>
      ELSE <<>>)
     \o (IF scriptTagsInBody > 1
         THEN <<"ASSEMBLED HTML: Multiple script tags detected in body">>
         ELSE <<>>)

\* validateStructure(html) of the component with structure validation
validateStructure(html) ==
  (IF Count(html, {Doctype}) = 0 /\ Count(html, HtmlTags) = 0
   THEN <<"STRUCTURAL: Missing HTML document structure">>
   ELSE <<>>)
  \o (IF Count(html, DivTags) # Count(html, {"</div>"})
      THEN <<"STRUCTURAL: Unclosed div tags">>
      ELSE <<>>)
  \o (IF Count(html, {"<style>"}) > 0
          /\ indexOf(html, {"<style>"}) > indexOf(html, {"<body>"})
      THEN <<"STRUCTURAL: <style> tag found in body instead of head">>
      ELSE <<>>)
  \o (IF indexOf(html, {"<script>"}) < indexOf(html, {"</head>"})
      THEN <<"WARNING: <script> tag in head may cause issues">>
      ELSE <<>>)

\* the template literal
assembledHtml(htmlCode, cssCode, jsCode) ==
  <<TplHead>> \o cssCode \o <<TplBody>> \o htmlCode \o <<TplScript>>
    \o jsCode \o <<TplTail>>

\* the value of the useMemo constructedHtml
constructedHtml(htmlCode, cssCode, jsCode) ==
  IF htmlCode = <<>> THEN <<>>
  ELSE assembledHtml(htmlCode, cssCode, jsCode)

\* the errors the useMemo passes to onError, in order
onErrorCalls(component, htmlCode, cssCode, jsCode) ==
  IF htmlCode = <<>> THEN <<>>
  ELSE IF component = "validateFragment"
  THEN validateFragment(htmlCode)
         \o validateAssembledHTML(htmlCode, cssCode, jsCode)
  ELSE validateStructure(htmlCode)

Page(component, sessionId, htmlCode, cssCode, jsCode) ==
  [component |-> component, sessionId |-> sessionId, htmlCode |-> htmlCode,
   cssCode |-> cssCode, jsCode |-> jsCode, rendered |-> FALSE,
   constructedHtml |-> <<>>, diagnostics |-> <<>>, reports |-> <<>>,
   gameErrors |-> 0]

\* the page before the first message: no session, no game
NoPage == [Page("validateFragment", "", <<>>, <<>>, <<>>) EXCEPT !.rendered = TRUE]

\* GameSandbox renders its props: the document goes to the iframe, every
\* error to onError, which is handleError
Render ==
  /\ ~page.rendered
  /\ LET errors == onErrorCalls(page.component, page.htmlCode, page.cssCode,
                                page.jsCode)
     IN page' = [page EXCEPT
          !.rendered = TRUE,
          !.constructedHtml =
             constructedHtml(page.htmlCode, page.cssCode, page.jsCode),
          !.diagnostics = errors,
          !.reports = @ \o errors]
  /\ UNCHANGED <<db, run, calls>>

\* handleMessage: the rendered game posts a game_error message
GameError ==
  /\ page.rendered /\ page.constructedHtml # <<>>
  /\ page.gameErrors < MaxGameErrors
  /\ page' = [page EXCEPT
       !.gameErrors = @ + 1,
       !.reports = Append(@, "JS RUNTIME: x is not defined at about:srcdoc:1:1")]
  /\ UNCHANGED <<db, run, calls>>

\* the ids of the cycles that error reports start; a report after these
\* is stored only
ReportCycles == <<"e1", "e2">>

\* update-errors stores the report with the session
updateErrors(table, sessionId, errorLog) ==
  IF sessionId \in DOMAIN table
  THEN [table EXCEPT ![sessionId].error_log = errorLog]
  ELSE table

\* update-errors gives a session that is coding_complete its next cycle:
\* orchestrate-changes is invoked with the report and no user instruction
\* (cs are the calls made so far)
nextCycle(table, cs, sessionId, errorLog) ==
  LET started == {j \in 1..Len(ReportCycles) : ReportCycles[j] \in DOMAIN cs}
      k == Cardinality(started) + 1
  IN IF /\ sessionId \in DOMAIN table
        /\ table[sessionId].status = "coding_complete"
        /\ k <= Len(ReportCycles)
     THEN cs @@ (ReportCycles[k] :>
                   [Call("orchestrate-changes", sessionId, "")
                      EXCEPT !.errorLog = errorLog])
     ELSE cs

\* Index.handleError for the oldest error not yet handled
HandleError ==
  /\ page.reports # <<>>
  /\ page' = [page EXCEPT !.reports = Tail(@)]
  /\ run' = run
  /\ LET error == Head(page.reports)
     IN IF page.sessionId = "" THEN db' = db /\ calls' = calls
        ELSE /\ db' = updateErrors(db, page.sessionId, error)
             /\ calls' = nextCycle(db, calls, page.sessionId, error)

(***************************************************************************)
(* Inputs: the stored sessions and the batches the Executor is run on.     *)
(***************************************************************************)
\* no invocation of orchestrate-changes or initialize-game
NoCalls == [c \in {} |-> Call("", "", "")]

\* no invocation of execute-tool-calls
NoRuns == [r \in {} |-> NewRun(Body("", <<>>, TRUE))]

\* all sequences over S of length at most n
RECURSIVE SeqsUpTo(_, _)
SeqsUpTo(S, n) ==
  IF n = 0 THEN {<<>>}
  ELSE LET shorter == SeqsUpTo(S, n - 1)
       IN shorter \cup {Append(q, x) : q \in shorter, x \in S}

Plain3 == <<"a", NL, "b", NL, "c">>

Placeholders ==
  <<SQ, "ship", SQ, NL, DQ, "ship", PNG, DQ, NL, LB, "ship", RB>>

BodyFragment == <<"<div>", NL, "a", NL, "</div>">>

FullDocument ==
  <<Doctype, "<html>", "<head>", "</head>", "<body>", NL, "<div>", NL,
    "</div>", NL, "</body>", "</html>">>

History0 == <<Turn("user", "make a game"), Turn("assistant", "plan"),
              Turn("user", "go"), Turn("assistant", "Working on it!")>>

\* a session the Orchestrator has just handed over
Stored(html, css, js, assets) ==
  [s \in {"s1"} |-> Row(html, css, js, assets, History0, "orchestrating")]

\* batches of up to MaxOps calls of every kind
BatchCalls ==
  { GenerateImage("ship", "a ship"),
    GenerateImage("rock", "a rock"),
    GenerateImage("ship", ""),
    WriteFile("css_code", <<"a">>),
    WriteFile("js_code", <<SQ, "ship", PNG, SQ>>),
    WriteFile("html_code", <<"<div>", "</div>">>),
    WriteFile("html_code", <<ScriptLocal>>),
    WriteFile("index.html", <<ScriptLocalDefer>>),
    WriteFile("sprites/ship.js", <<"a">>),
    WriteFile("Style.CSS", <<>>),
    ReplaceLinesCall("css_code", 0, 1, <<"a">>),
    ReplaceLinesCall("js_code", 1, 1, <<"b">>),
    ReplaceLinesCall("html_code", 2, 2, <<"b">>),
    NoParams("replace_lines"),
    NoParams("delete_file") }

InitBatches ==
  /\ calls = NoCalls
  /\ page = NoPage
  /\ db = Stored(BodyFragment, Placeholders, Plain3, <<>>)
  /\ \E batch \in SeqsUpTo(BatchCalls, MaxOps) :
       run = [r \in {"r1"} |-> NewRun(Body("s1", batch, TRUE))]

\* one ranged replace, every range and every target
ReplaceContents == {<<>>, <<"x">>, <<"x", NL, "y">>}

InitReplace ==
  /\ calls = NoCalls
  /\ page = NoPage
  /\ \E f \in {<<>>, <<"a">>, Plain3} :
       \E html \in {f, FullDocument} :
         db = Stored(html, f, f, <<>>)
  /\ \E fp \in {"html_code", "css_code", "js"} :
     \E sl \in 0..(MaxLine + 1) : \E el \in 0..(MaxLine + 1) :
     \E c \in ReplaceContents :
       run = [r \in {"r1"} |->
                NewRun(Body("s1", <<ReplaceLinesCall(fp, sl, el, c)>>, TRUE))]

\* one generated image on every short text of quotes, name and extension,
\* and on texts with the curly form
PlaceholderTokens == {SQ, DQ, PNG, "ship"}

PlaceholderTexts ==
  SeqsUpTo(PlaceholderTokens, MaxTextLen)
    \cup {Placeholders, <<LB, "ship", RB>>, <<LB, LB, "ship", RB, RB>>,
          <<LB, "ship", PNG, RB>>, <<SQ, LB, "ship", RB, SQ>>}

InitSubstitute ==
  /\ calls = NoCalls
  /\ page = NoPage
  /\ \E f \in PlaceholderTexts :
       db = Stored(f, f, f, <<"https://x/s1/rock.png">>)
  /\ run = [r \in {"r1"} |->
              NewRun(Body("s1", <<GenerateImage("ship", "a ship")>>, TRUE))]

\* a replace on the structure fragment after the batch has changed it, on a
\* stored fragment and on a stored document, followed by one more operation
RollbackFirst ==
  { GenerateImage("ship", "a ship"),
    WriteFile("html_code", <<"<div>", NL, "</div>">>),
    WriteFile("css_code", <<"a">>) }

RollbackReplace ==
  { ReplaceLinesCall("html_code", 1, 1, <<"<div>">>),
    ReplaceLinesCall("html_code", 2, 2, <<"<div>">>),
    ReplaceLinesCall("html_code", 2, 2, <<"b">>) }

RollbackLast ==
  { ReplaceLinesCall("html_code", 1, 1, <<"x">>),
    WriteFile("js_code", <<"a">>) }

InitRollback ==
  /\ calls = NoCalls
  /\ page = NoPage
  /\ \E html \in {<<LB, "ship", RB, NL, "a">>, FullDocument} :
       db = Stored(html, Placeholders, Plain3, <<>>)
  /\ \E first \in RollbackFirst : \E second \in RollbackReplace :
     \E last \in RollbackLast :
       run = [r \in {"r1"} |->
                NewRun(Body("s1", <<first, second, last>>, TRUE))]

\* one write to every spelling of a target, of a text and of the empty text
Targets ==
  {"html", "HTML_CODE", "index.html", "css", "style.css", "styles.css",
   "Style.CSS", "js", "js_code", "script.js", "game.js", "main.js",
   "sprites/ship.js"}

InitTargets ==
  /\ calls = NoCalls
  /\ page = NoPage
  /\ db = Stored(BodyFragment, Plain3, Plain3, <<>>)
  /\ \E t \in Targets : \E content \in {<<"x">>, <<>>} :
       run = [r \in {"r1"} |->
                NewRun(Body("s1", <<WriteFile(t, content)>>, TRUE))]

\* malformed requests
InitRequests ==
  /\ calls = NoCalls
  /\ page = NoPage
  /\ db = Stored(BodyFragment, Plain3, Plain3, <<>>)
  /\ \E sid \in {"", "s1", "s2"} : \E isArray \in BOOLEAN :
       run = [r \in {"r1"} |->
                NewRun(Body(sid, <<WriteFile("css_code", <<"a">>)>>, isArray))]

\* a session at rest or in a cycle, a request to orchestrate-changes for it
\* or for a session that does not exist, and a request to initialize-game
\* with or without its id
StoredAs(status) ==
  [s \in {"s1"} |->
     Row(BodyFragment, Plain3, Plain3, <<>>, History0, status)]

InitCycle ==
  /\ page = NoPage
  /\ \E status \in {"planning_complete", "orchestrating", "coding_complete"} :
       db = StoredAs(status)
  /\ run = NoRuns
  /\ \E sid \in {"s1", "s9"} : \E planSid \in {"", "s1"} :
       calls = ("o1" :> Call("orchestrate-changes", sid, "add a ship"))
                 @@ ("i1" :> Call("initialize-game", planSid, "make a maze"))

\* two requests to execute-tool-calls for the same session
InitTwoRuns ==
  /\ calls = NoCalls
  /\ page = NoPage
  /\ db = Stored(BodyFragment, Placeholders, Plain3, <<>>)
  /\ \E second \in {<<GenerateImage("ship", "a ship")>>,
                     <<GenerateImage("rock", "a rock")>>,
                     <<WriteFile("css_code", <<"a">>)>>} :
       run = ("r1" :> NewRun(Body("s1", <<GenerateImage("ship", "a ship")>>, TRUE)))
               @@ ("r2" :> NewRun(Body("s1", second, TRUE)))

\* structure fragments with and without wrapper elements
HtmlFragments ==
  { <<>>, BodyFragment, FullDocument,
    <<"<div id='game'>", "</div>">>,
    <<Doctype, NL, "<div>", "</div>">>,
    <<"<html lang='en'>", "<div>", "</div>", "</html>">>,
    <<"<head>", "</head>", "<div>", "</div>">>,
    <<"<body>", "<div>", "</div>", "</body>">>,
    <<"<body class='game'>", "<div>", "</div>", "</body>">>,
    <<"<!doctype html>", NL, "<div>", "</div>">>,
    <<"<div>", "<style>", "</style>", "<script>", "</script>">> }

\* a page without a session that is about to render a fragment triple
InitSandbox ==
  /\ db = StoredAs("coding_complete")
  /\ run = NoRuns
  /\ calls = NoCalls
  /\ \E component \in {"validateFragment", "validateStructure"} :
     \E htmlCode \in HtmlFragments :
     \E cssCode \in {<<>>, <<"a">>} : \E jsCode \in {<<>>, <<"b">>} :
       page = Page(component, "", htmlCode, cssCode, jsCode)

\* a page that is about to render the fragments of its session, which is
\* at rest after a batch
InitReport ==
  /\ db = StoredAs("coding_complete")
  /\ run = NoRuns
  /\ calls = NoCalls
  /\ \E component \in {"validateFragment", "validateStructure"} :
       page = Page(component, "s1", BodyFragment, Plain3, Plain3)

\* the error report the rendered game posts
RuntimeReport == "JS RUNTIME: x is not defined at about:srcdoc:1:1"

\* a session at rest with a stored error report, and a request to
\* orchestrate-changes with a user instruction or with a report alone
InitPending ==
  /\ db = [StoredAs("coding_complete") EXCEPT !["s1"].error_log = RuntimeReport]
  /\ run = NoRuns
  /\ page = NoPage
  /\ \E request \in {Call("orchestrate-changes", "s1", "add a ship"),
                      [Call("orchestrate-changes", "s1", "")
                         EXCEPT !.errorLog = "DOM WARNING: Multiple script tags in body detected"]} :
       calls = ("o1" :> request)

Init ==
  \/ InitSandbox \/ InitReport \/ InitPending
  \/ InitBatches \/ InitReplace \/ InitSubstitute \/ InitRequests
  \/ InitCycle \/ InitTwoRuns \/ InitRollback \/ InitTargets

Next ==
  \/ \E r \in DOMAIN run : ExecFetchSession(r)
  \/ \E r \in DOMAIN run : ExecImage(r)
  \/ \E r \in DOMAIN run : ExecSubstitute(r)
  \/ \E r \in DOMAIN run : ExecCodeOp(r)
  \/ \E r \in DOMAIN run : ExecSummarize(r)
  \/ \E r \in DOMAIN run : ExecCommit(r)
  \/ \E o \in DOMAIN calls : OrchFetchSession(o)
  \/ \E o \in DOMAIN calls : OrchModel(o)
  \/ \E o \in DOMAIN calls : OrchUpdate(o)
  \/ \E o \in DOMAIN calls : ClientExecute(o)
  \/ \E i \in DOMAIN calls : IniModel(i)
  \/ \E i \in DOMAIN calls : IniStore(i)
  \/ Render
  \/ GameError
  \/ HandleError

Spec == Init /\ [][Next]_vars

\* a handler is between its first step and its response
Busy ==
  \/ \E r \in DOMAIN run : run[r].pc \notin {"request", "responded"}
  \/ \E c \in DOMAIN calls : calls[c].pc \notin {"request", "responded"}

\* the calls of one page, each awaited before the next is made: a handler
\* starts only when none is running
NextSequential ==
  \/ \E r \in DOMAIN run : ~Busy /\ ExecFetchSession(r)
  \/ \E r \in DOMAIN run : ExecImage(r)
  \/ \E r \in DOMAIN run : ExecSubstitute(r)
  \/ \E r \in DOMAIN run : ExecCodeOp(r)
  \/ \E r \in DOMAIN run : ExecSummarize(r)
  \/ \E r \in DOMAIN run : ExecCommit(r)
  \/ \E o \in DOMAIN calls : ~Busy /\ OrchFetchSession(o)
  \/ \E o \in DOMAIN calls : OrchModel(o)
  \/ \E o \in DOMAIN calls : OrchUpdate(o)
  \/ \E o \in DOMAIN calls : ClientExecute(o)
  \/ \E i \in DOMAIN calls : ~Busy /\ IniModel(i)
  \/ \E i \in DOMAIN calls : IniStore(i)
  \/ Render
  \/ GameError
  \/ HandleError

SpecSequential == Init /\ [][NextSequential]_vars

\* the cycles of one page: a user instruction, a first message and the
\* error reports of the rendered game
InitLive == InitCycle \/ InitReport

\* a step of a handler that is not waiting for a response is taken: the
\* runtime runs the handler on.  The steps that end a fetch to the gateway
\* (OrchModel, IniModel, ExecImage, ExecSummarize) happen when the gateway
\* answers, and no fetch has a signal or a timeout that would end it
\* otherwise; GameError is up to the game.
Fairness ==
  /\ WF_vars(\E r \in DOMAIN run : ExecFetchSession(r))
  /\ WF_vars(\E r \in DOMAIN run : ExecSubstitute(r))
  /\ WF_vars(\E r \in DOMAIN run : ExecCodeOp(r))
  /\ WF_vars(\E r \in DOMAIN run : ExecCommit(r))
  /\ WF_vars(\E o \in DOMAIN calls : OrchFetchSession(o))
  /\ WF_vars(\E o \in DOMAIN calls : OrchUpdate(o))
  /\ WF_vars(\E o \in DOMAIN calls : ClientExecute(o))
  /\ WF_vars(\E i \in DOMAIN calls : IniStore(i))
  /\ WF_vars(Render)
  /\ WF_vars(HandleError)

SpecLive == InitLive /\ [][Next]_vars /\ Fairness

(***************************************************************************)
(* Vocabulary of the properties.                                           *)
(***************************************************************************)
Fragments == {"html", "css", "js"}

Frag(R, fp) ==
  IF fp = "html" THEN R.html_code
  ELSE IF fp = "css" THEN R.css_code
  ELSE R.js_code

HasLine(R, kind) ==
  \E k \in 1..Len(R.actionsSummary) : R.actionsSummary[k].kind = kind

LastLine(R) == R.actionsSummary[Len(R.actionsSummary)]

\* r takes one iteration of the STAGE 3 loop in this step
CodeStep(r) ==
  /\ run[r].pc = "code"
  /\ run[r].i <= Len(codeModificationCalls(run[r].body.toolCalls))
  /\ run'[r] # run[r]

CurrentOp(r) == codeModificationCalls(run[r].body.toolCalls)[run[r].i]

\* a write_file call that carries a target and a content
IsWrite(op) ==
  op.tool_name = "write_file" /\ op.file_path # "" /\ op.hasContent
    /\ op.content # <<>>

\* a replace_lines call that carries all its parameters
IsReplace(op) ==
  op.tool_name = "replace_lines" /\ op.file_path # "" /\ op.hasLines
    /\ op.hasContent

\* a src or href that points to a file that is neither on the network nor a
\* data URL
ReferencesExternalFile(content) ==
  \E k \in 1..Len(content) :
    content[k] \in {ScriptLocal, ScriptLocalDefer, LinkLocal, ImgLocal}

(***************************************************************************)
(* C1: a batch that ends in a fatal error leaves the stored session as it  *)
(* was: no step of a run other than the one that answers 200 changes the   *)
(* table, whatever the run had already done in memory.                     *)
(***************************************************************************)
C1_FatalErrorLeavesStoreUnchanged ==
  [][\A r \in DOMAIN run :
       (run'[r] # run[r] /\ run'[r].status # 200) => db' = db]_vars

\* a batch has been rejected for an external reference after an image was
\* generated and the style fragment written in memory, and the stored row
\* still holds the old fragments, assets, history and status
C1_Witness ==
  \E r \in DOMAIN run :
    /\ run[r].status = 500
    /\ run[r].error = "HTML contains references to external files"
    /\ HasLine(run[r], "Generated image")
    /\ \E k \in 1..Len(run[r].actionsSummary) :
         run[r].actionsSummary[k] = Line("Wrote content to", "css")
    /\ run[r].css_code = <<"a">>
    /\ db["s1"].css_code = Placeholders
    /\ db["s1"].asset_urls = <<>> /\ run[r].asset_urls # <<>>
    /\ db["s1"].chat_history = History0
    /\ db["s1"].status = "orchestrating"

(***************************************************************************)
(* C2: a batch with a write to the structure fragment whose content        *)
(* references an external script, stylesheet or image file is never        *)
(* committed.                                                              *)
(***************************************************************************)
C2_ExternalReferenceRejectsBatch ==
  \A r \in DOMAIN run :
    (\E k \in 1..Len(run[r].body.toolCalls) :
       LET op == run[r].body.toolCalls[k]
       IN IsWrite(op) /\ mapFilePath(op.file_path) = "html"
            /\ ReferencesExternalFile(op.content))
    => run[r].status # 200

(***************************************************************************)
(* C3: a batch with a write whose target maps to none of the three         *)
(* fragments is rejected: it is never committed.                           *)
(***************************************************************************)
C3_UnmappableTargetRejectsBatch ==
  \A r \in DOMAIN run :
    (\E k \in 1..Len(run[r].body.toolCalls) :
       LET op == run[r].body.toolCalls[k]
       IN IsWrite(op) /\ mapFilePath(op.file_path) \notin Fragments)
    => run[r].status # 200

(***************************************************************************)
(* C4: a ranged replace whose range violates 1 <= start <= end <=          *)
(* lineCount leaves its target fragment as it was, adds exactly one line   *)
(* to the summary, an error line, and does not end the batch.              *)
(***************************************************************************)
InRange(code, sl, el) == 1 <= sl /\ sl <= el /\ el <= Len(split(code))

C4_OutOfRangeReplaceIsSkipped ==
  [][\A r \in DOMAIN run :
       LET op == CurrentOp(r)
           fp == mapFilePath(op.file_path)
       IN (CodeStep(r) /\ IsReplace(op) /\ fp \in Fragments
             /\ ~InRange(Frag(run[r], fp), op.start_line, op.end_line))
          => /\ Frag(run'[r], fp) = Frag(run[r], fp)
             /\ Len(run'[r].actionsSummary) = Len(run[r].actionsSummary) + 1
             /\ LastLine(run'[r]).kind = "ERROR replacing lines"
             /\ run'[r].status = 0]_vars

(***************************************************************************)
(* C5: an applied ranged replace with 1 <= start <= end <= lineCount       *)
(* leaves the target with its former line count minus (end - start + 1)    *)
(* plus the number of lines of the new content.  The replace is applied    *)
(* when the target was handed to replaceLines and the success line of the  *)
(* operation is the last line of the summary.                              *)
(***************************************************************************)
Applied(r) ==
  LET op == CurrentOp(r)
      fp == mapFilePath(op.file_path)
  IN /\ CodeStep(r)
     /\ IsReplace(op)
     /\ fp \in Fragments
     /\ Frag(run[r], fp) # <<>>
     /\ InRange(Frag(run[r], fp), op.start_line, op.end_line)
     /\ LastLine(run'[r]) =
          LineRange("Replaced lines", fp, op.start_line, op.end_line)

C5_ReplaceLineCount ==
  [][\A r \in DOMAIN run :
       Applied(r) =>
         LET op == CurrentOp(r)
             fp == mapFilePath(op.file_path)
         IN Len(split(Frag(run'[r], fp)))
              = Len(split(Frag(run[r], fp)))
                  - (op.end_line - op.start_line + 1)
                  + Len(split(op.content))]_vars

\* lines 2..3 of a three-line style fragment have been replaced by one line
C5_Witness ==
  \E r \in DOMAIN run :
    /\ run[r].pc = "code"
    /\ db["s1"].css_code = Plain3
    /\ run[r].actionsSummary = <<LineRange("Replaced lines", "css", 2, 3)>>
    /\ Len(split(run[r].css_code)) = 2

(***************************************************************************)
(* C6: an applied ranged replace keeps lines 1..start-1 of the target, in  *)
(* order, puts the lines of the new content at start, lets the lines that  *)
(* were at end+1..lineCount follow them, in order, and leaves the other    *)
(* two fragments as they were.                                             *)
(***************************************************************************)
C6_ReplaceFrame ==
  [][\A r \in DOMAIN run :
       Applied(r) =>
         LET op == CurrentOp(r)
             fp == mapFilePath(op.file_path)
             sl == op.start_line
             el == op.end_line
             old == split(Frag(run[r], fp))
             new == split(Frag(run'[r], fp))
             c == split(op.content)
         IN /\ SubSeq(new, 1, sl - 1) = SubSeq(old, 1, sl - 1)
            /\ SubSeq(new, sl, sl + Len(c) - 1) = c
            /\ SubSeq(new, sl + Len(c), Len(new)) = SubSeq(old, el + 1, Len(old))
            /\ \A g \in Fragments \ {fp} : Frag(run'[r], g) = Frag(run[r], g)]_vars

\* line 2 of the three-line behavior fragment has been replaced by two
\* lines, between the old lines 1 and 3; structure and style are the stored
\* ones
C6_Witness ==
  \E r \in DOMAIN run :
    /\ run[r].pc = "code"
    /\ db["s1"].js_code = Plain3
    /\ run[r].actionsSummary = <<LineRange("Replaced lines", "js", 2, 2)>>
    /\ run[r].js_code = <<"a", NL, "x", NL, "y", NL, "c">>
    /\ run[r].html_code = db["s1"].html_code
    /\ run[r].css_code = db["s1"].css_code

(***************************************************************************)
(* C7: once an operation of the batch has been skipped as invalid (range   *)
(* error, missing parameters, unknown kind), a later valid operation on    *)
(* another fragment is still applied by its iteration: the fragment the    *)
(* batch goes on with, and commits, holds its effect.  A write is valid    *)
(* when it has a mapped target, a content and no external reference; a     *)
(* replace when its target is mapped and not empty, its range is within    *)
(* the target and, on the structure fragment, its result is tag-balanced.  *)
(***************************************************************************)
SkipKinds ==
  {"Skipped write_file", "Skipped replace_lines", "Skipped unknown tool",
   "ERROR replacing lines"}

\* an earlier operation was skipped, and it did not target fragment fp
SkippedElsewhere(R, fp) ==
  \E k \in 1..Len(R.actionsSummary) :
    R.actionsSummary[k].kind \in SkipKinds /\ R.actionsSummary[k].arg # fp

TagBalanced(html) ==
  Count(html, OpenTags) - Count(html, SelfClosingTags) = Count(html, CloseTags)

\* the fragment a valid operation must leave in its target
Effect(R, op) ==
  IF op.tool_name = "write_file" THEN op.content
  ELSE replaceLines(Frag(R, mapFilePath(op.file_path)), op.start_line,
                    op.end_line, op.content).result

ValidOp(R, op) ==
  LET fp == mapFilePath(op.file_path)
  IN \/ IsWrite(op) /\ fp \in Fragments /\ ~ReferencesExternalFile(op.content)
     \/ /\ IsReplace(op) /\ fp \in Fragments
        /\ Frag(R, fp) # <<>>
        /\ InRange(Frag(R, fp), op.start_line, op.end_line)
        /\ fp = "html" => TagBalanced(Effect(R, op))

C7_LaterValidOperationApplied ==
  [][\A r \in DOMAIN run :
       LET op == CurrentOp(r)
           fp == mapFilePath(op.file_path)
       IN (CodeStep(r) /\ ValidOp(run[r], op) /\ SkippedElsewhere(run[r], fp))
          => /\ run'[r].status = 0
             /\ Frag(run'[r], fp) = Effect(run[r], op)]_vars

(***************************************************************************)
(* C8: after the substitution stage no fragment holds 'name', "name",      *)
(* 'name.png', "name.png" or {{name}} for a generated name, and a fragment *)
(* that held one holds the quoted URL (structure, behavior) or             *)
(* url('URL') (style) instead.                                             *)
(***************************************************************************)
Forms(name) == patterns(name)[1] \cup patterns(name)[2] \cup patterns(name)[3]

SubstitutionStep(r) == run[r].pc = "images" /\ run'[r].pc = "code"

C8_SubstitutionReplacesEveryForm ==
  [][\A r \in DOMAIN run :
       SubstitutionStep(r) =>
         \A k \in 1..Len(run[r].imageUrlMap) :
           LET e == run[r].imageUrlMap[k]
           IN \A fp \in Fragments :
                /\ ~Contains(Frag(run'[r], fp), Forms(e.name))
                /\ Contains(Frag(run[r], fp), Forms(e.name)) =>
                     Contains(Frag(run'[r], fp),
                              {IF fp = "css" THEN cssUrl(e.url)
                               ELSE quotedUrl(e.url)})]_vars

(***************************************************************************)
(* C9: after a committed batch that generated image X no stored fragment   *)
(* holds a placeholder form of X; in particular a fragment that the batch  *)
(* wrote holds none.                                                       *)
(***************************************************************************)
\* the batch of r wrote fragment fp and no later operation targeted it
WrittenLast(R, fp) ==
  LET ops == codeModificationCalls(R.body.toolCalls)
  IN \E k \in 1..Len(ops) :
       /\ IsWrite(ops[k]) /\ mapFilePath(ops[k].file_path) = fp
       /\ \A j \in (k + 1)..Len(ops) : mapFilePath(ops[j].file_path) # fp

C9_NoPlaceholderInWrittenContent ==
  \A r \in DOMAIN run :
    run[r].status = 200 =>
      \A k \in 1..Len(run[r].imageUrlMap) :
        \A fp \in Fragments :
          WrittenLast(run[r], fp) =>
            ~Contains(Frag(db[run[r].body.sessionId], fp),
                      Forms(run[r].imageUrlMap[k].name))

(***************************************************************************)
(* C10: a failed image generation does not abort the batch.  Its           *)
(* iteration records the failure line and nothing else: no asset, no map   *)
(* entry, no change of a fragment, no response, and the loop goes on with  *)
(* the next call.  The substitution stage leaves every occurrence of a     *)
(* name that has no generated URL.  A batch is only ever rejected for      *)
(* a missing session, an external reference or a failed terminal update,   *)
(* and the commit of a batch with a failed image sets coding_complete.     *)
(***************************************************************************)
FatalErrors ==
  {"Session not found", "HTML contains references to external files",
   "updateError"}

C10_ImageFailureDoesNotAbort ==
  [][\A r \in DOMAIN run :
       /\ run'[r].status = 500 => run'[r].error \in FatalErrors
       /\ (run[r].pc = "images" /\ run'[r] # run[r]
             /\ run'[r].actionsSummary # run[r].actionsSummary
             /\ LastLine(run'[r]).kind = "Failed to generate image")
          => /\ run'[r].pc = "images" /\ run'[r].status = 0
             /\ run'[r].i = run[r].i + 1
             /\ run'[r].actionsSummary =
                  Append(run[r].actionsSummary, LastLine(run'[r]))
             /\ LastLine(run'[r]).arg =
                  imageGenerationCalls(run[r].body.toolCalls)[run[r].i].name
             /\ run'[r].asset_urls = run[r].asset_urls
             /\ run'[r].imageUrlMap = run[r].imageUrlMap
             /\ \A fp \in Fragments : Frag(run'[r], fp) = Frag(run[r], fp)
             /\ db' = db
       /\ SubstitutionStep(r) =>
            \A n \in Names :
              (\A k \in 1..Len(run[r].imageUrlMap) : run[r].imageUrlMap[k].name # n)
              => \A fp \in Fragments :
                   Count(Frag(run'[r], fp), {n}) = Count(Frag(run[r], fp), {n})
       /\ (run[r].status = 0 /\ run'[r].status = 200)
          => db'[run[r].body.sessionId].status = "coding_complete"]_vars

\* a batch whose image generation failed has been committed: the failure
\* line is in the summary, the write that followed was applied, no asset was
\* added, the style fragment still holds the placeholders of the name, and
\* the session is coding_complete
C10_Witness ==
  \E r \in DOMAIN run :
    /\ run[r].status = 200
    /\ run[r].actionsSummary =
         <<LineMsg("Failed to generate image", "ship",
                   "Rate limit exceeded for image generation"),
           Line("Wrote content to", "js")>>
    /\ run[r].imageUrlMap = <<>>
    /\ db["s1"].asset_urls = <<>>
    /\ db["s1"].css_code = Placeholders
    /\ db["s1"].js_code = <<SQ, "ship", PNG, SQ>>
    /\ db["s1"].status = "coding_complete"

(***************************************************************************)
(* C11: at most one Executor run is in flight per session: no two runs of  *)
(* the same session have both read the session and not yet responded.      *)
(***************************************************************************)
InFlight(R) == R.pc \in {"images", "code", "commit"}

C11_AtMostOneRunInFlight ==
  \A r1 \in DOMAIN run : \A r2 \in DOMAIN run :
    (r1 # r2 /\ run[r1].body.sessionId = run[r2].body.sessionId)
      => ~(InFlight(run[r1]) /\ InFlight(run[r2]))

(***************************************************************************)
(* C12: the Orchestrator never starts a cycle on a session whose stored    *)
(* status is orchestrating: a request that finds that status does not go   *)
(* on to the model.                                                        *)
(***************************************************************************)
StartsCycle(o) ==
  /\ o \in DOMAIN calls /\ calls[o].fn = "orchestrate-changes"
  /\ calls[o].pc = "request" /\ calls'[o].pc = "model"

C12_NoCycleStartedWhileOrchestrating ==
  [][\A o \in DOMAIN calls :
       StartsCycle(o) => db[calls[o].sessionId].status # "orchestrating"]_vars

(***************************************************************************)
(* C13: every change of a stored status is one of initial ->               *)
(* planning_complete, planning_complete -> orchestrating, orchestrating -> *)
(* coding_complete, coding_complete -> orchestrating; a row that is        *)
(* inserted starts as planning_complete.                                   *)
(***************************************************************************)
LegalStatusChanges ==
  { <<"initial", "planning_complete">>,
    <<"planning_complete", "orchestrating">>,
    <<"orchestrating", "coding_complete">>,
    <<"coding_complete", "orchestrating">> }

C13_OnlyLegalStatusChanges ==
  [][/\ \A s \in DOMAIN db :
          /\ s \in DOMAIN db'
          /\ db'[s].status # db[s].status
                => <<db[s].status, db'[s].status>> \in LegalStatusChanges
     /\ \A s \in DOMAIN db' \ DOMAIN db : db'[s].status = "planning_complete"]_vars

(***************************************************************************)
(* C14: the stored history is append-only: after every operation the       *)
(* history stored before is a prefix of the history stored after.          *)
(***************************************************************************)
IsPrefix(a, b) == Len(a) <= Len(b) /\ SubSeq(b, 1, Len(a)) = a

C14_HistoryAppendOnly ==
  [][\A s \in DOMAIN db :
       s \in DOMAIN db' /\ IsPrefix(db[s].chat_history, db'[s].chat_history)]_vars

(***************************************************************************)
(* C15: the stored asset list is append-only and holds no URL twice after  *)
(* any sequence of batches: every operation keeps the stored list as a     *)
(* prefix of the new one, and the new one has no duplicate.                *)
(***************************************************************************)
NoDuplicates(seq) ==
  \A j \in 1..Len(seq) : \A k \in 1..Len(seq) : seq[j] = seq[k] => j = k

C15_AssetsAppendOnlyAndDistinct ==
  [][\A s \in DOMAIN db :
       /\ s \in DOMAIN db'
       /\ IsPrefix(db[s].asset_urls, db'[s].asset_urls)
       /\ NoDuplicates(db'[s].asset_urls)]_vars

\* two batches of one session have been committed one after the other,
\* both generated the image "ship", and the stored list holds its URL once
C15_Witness ==
  /\ DOMAIN run = {"r1", "r2"}
  /\ \A r \in DOMAIN run :
       /\ run[r].status = 200
       /\ run[r].imageUrlMap # <<>>
       /\ run[r].body.toolCalls = <<GenerateImage("ship", "a ship")>>
  /\ db["s1"].asset_urls = <<publicUrl("s1", "ship")>>

(***************************************************************************)
(* C16: an Orchestrator call that fails answers with an error status and a *)
(* message, and no step of a call other than the one that answers 200      *)
(* changes the table: status, fragments, assets and history stay as they   *)
(* were.                                                                   *)
(***************************************************************************)
OrchStep(o) ==
  /\ calls[o].fn = "orchestrate-changes"
  /\ calls'[o] # calls[o]

C16_OrchestratorFailureLeavesStoreUnchanged ==
  [][\A o \in DOMAIN calls :
       (OrchStep(o) /\ calls'[o].status # 200)
         => /\ db' = db
            /\ calls'[o].pc = "responded"
                 => /\ calls'[o].status \in {400, 429, 500}
                    /\ calls'[o].error # <<>>
                    /\ calls'[o].toolCalls = <<>>]_vars

\* the model named a file that is none of the three fragments, the call
\* answered with an error, and the row is as it was stored
C16_Witness ==
  \E o \in DOMAIN calls :
    /\ calls[o].fn = "orchestrate-changes"
    /\ calls[o].pc = "responded"
    /\ calls[o].status # 200
    /\ includes(calls[o].error, "Invalid file_path \"")
    /\ db = StoredAs("coding_complete")

(***************************************************************************)
(* C17: when the Orchestrator answers with an operation list, the stored   *)
(* history ends with the interim assistant turn of the cycle and the       *)
(* stored status is orchestrating.                                         *)
(***************************************************************************)
ReturnsOperations(o) ==
  /\ calls[o].fn = "orchestrate-changes"
  /\ calls[o].status = 0 /\ calls'[o].status = 200

C17_InterimTurnStoredBeforeHandOver ==
  [][\A o \in DOMAIN calls :
       ReturnsOperations(o)
         => LET row == db'[calls[o].sessionId]
            IN /\ row.status = "orchestrating"
               /\ row.chat_history = interimHistory(calls[o])]_vars

(***************************************************************************)
(* C18: a failure of the Orchestrator on the response of the model is      *)
(* answered with the class of its cause: 429 for a rate-limit signal, 500  *)
(* for any other failure of the gateway, 400 for a response that is        *)
(* unparseable, has no operations array, has an operation without kind or  *)
(* parameters, or names an unmappable target.                              *)
(***************************************************************************)
classOfCause(reply) ==
  IF ~reply.ok THEN (IF reply.status = 429 THEN 429 ELSE 500)
  ELSE 400

C18_FailureClassMatchesCause ==
  [][\A o \in DOMAIN calls :
       (OrchStep(o) /\ calls[o].pc = "model" /\ calls'[o].pc = "responded")
         => calls'[o].status = classOfCause(calls'[o].reply)]_vars

(***************************************************************************)
(* C19: a write with a valid target and a content, the empty content       *)
(* included, replaces the target fragment by the content and leaves the    *)
(* other two fragments as they were.                                       *)
(***************************************************************************)
C19_WriteWithValidTargetSucceeds ==
  [][\A r \in DOMAIN run :
       LET op == CurrentOp(r)
           fp == mapFilePath(op.file_path)
       IN (/\ CodeStep(r)
           /\ op.tool_name = "write_file" /\ op.hasContent
           /\ fp \in Fragments
           /\ ~ReferencesExternalFile(op.content))
          => /\ Frag(run'[r], fp) = op.content
             /\ \A other \in Fragments \ {fp} :
                  Frag(run'[r], other) = Frag(run[r], other)]_vars

(***************************************************************************)
(* C20: the step that ends a batch with success is one update of the row   *)
(* of the session: it stores the fragments and assets of the batch, the    *)
(* stored history with exactly one assistant turn appended, and status     *)
(* coding_complete; no other step of the batch changes the table.          *)
(***************************************************************************)
C20_SingleTerminalUpdate ==
  [][\A r \in DOMAIN run :
       run'[r] # run[r] =>
         IF run'[r].status = 200
         THEN LET sid == run[r].body.sessionId
              IN db' = [db EXCEPT ![sid] =
                   [@ EXCEPT !.html_code = run[r].html_code,
                             !.css_code = run[r].css_code,
                             !.js_code = run[r].js_code,
                             !.asset_urls = run[r].asset_urls,
                             !.chat_history =
                                Append(db[sid].chat_history,
                                       Turn("assistant",
                                            run[r].assistantChatResponse)),
                             !.status = "coding_complete"]]
         ELSE db' = db]_vars

\* a batch that generated an image and wrote the style fragment has been
\* committed: the row holds the new fragment and the asset, one more turn
\* than before, and status coding_complete
C20_Witness ==
  \E r \in DOMAIN run :
    /\ run[r].status = 200
    /\ run[r].body.toolCalls =
         <<GenerateImage("ship", "a ship"), WriteFile("css_code", <<"a">>)>>
    /\ db["s1"].css_code = <<"a">>
    /\ db["s1"].asset_urls = <<publicUrl("s1", "ship")>>
    /\ db["s1"].chat_history =
         Append(History0, Turn("assistant", run[r].assistantChatResponse))
    /\ db["s1"].status = "coding_complete"

(***************************************************************************)
(* C27: a ranged replace on the structure fragment whose range is valid    *)
(* and whose result is tag-balanced is kept, with or without wrapper       *)
(* elements in the fragment: the fragment holds the result after the       *)
(* operation and nothing is rolled back.                                   *)
(***************************************************************************)
\* r applies an in-range replace to its non-empty structure fragment
ReplacesStructure(r) ==
  LET op == CurrentOp(r)
  IN /\ CodeStep(r)
     /\ IsReplace(op)
     /\ mapFilePath(op.file_path) = "html"
     /\ run[r].html_code # <<>>
     /\ InRange(run[r].html_code, op.start_line, op.end_line)

C27_BalancedReplaceIsKept ==
  [][\A r \in DOMAIN run :
       (ReplacesStructure(r) /\ TagBalanced(Effect(run[r], CurrentOp(r))))
         => /\ run'[r].html_code = Effect(run[r], CurrentOp(r))
            /\ LastLine(run'[r]).kind = "Replaced lines"]_vars

(***************************************************************************)
(* C28: when the structural check fails after a replace on the structure   *)
(* fragment, the fragment is set to the value the store holds since the    *)
(* start of the batch, the last summary line is the rollback line, style   *)
(* and behavior keep the values the batch gave them, and the batch goes on *)
(* with the next operation.                                                *)
(***************************************************************************)
C28_RollbackToBatchStart ==
  [][\A r \in DOMAIN run :
       (ReplacesStructure(r) /\ ~validateHTML(Effect(run[r], CurrentOp(r))))
         => /\ run'[r].html_code = db[run[r].body.sessionId].html_code
            /\ run'[r].css_code = run[r].css_code
            /\ run'[r].js_code = run[r].js_code
            /\ Len(run'[r].actionsSummary) = Len(run[r].actionsSummary) + 2
            /\ LastLine(run'[r]) = Line("Rolled back HTML", "html")
            /\ run'[r].pc = "code" /\ run'[r].i = run[r].i + 1
            /\ run'[r].status = 0]_vars

\* the batch substituted a placeholder in the structure and style
\* fragments, a replace on the structure failed the check, and the batch
\* went on with a write to the behavior fragment: the structure fragment
\* is the stored one, placeholder included, and the style and behavior
\* fragments keep what the batch gave them
C28_Witness ==
  \E r \in DOMAIN run :
    /\ run[r].pc = "code" /\ run[r].i = 3
    /\ db["s1"].html_code = <<LB, "ship", RB, NL, "a">>
    /\ run[r].imageUrlMap # <<>>
    /\ HasLine(run[r], "Rolled back HTML")
    /\ LastLine(run[r]) = Line("Wrote content to", "js")
    /\ run[r].html_code = db["s1"].html_code
    /\ run[r].css_code # db["s1"].css_code
    /\ run[r].js_code = <<"a">>

(***************************************************************************)
(* C30: the Orchestrator and the Executor map targets alike: a write to a  *)
(* target the Orchestrator accepts as the structure, style or behavior     *)
(* fragment is applied by the Executor to that fragment, and a write to a  *)
(* target the Orchestrator rejects changes no fragment.                    *)
(***************************************************************************)
\* the fragment of the Executor a column name of the Orchestrator denotes
FragmentOf(column) ==
  IF column = "html_code" THEN "html"
  ELSE IF column = "css_code" THEN "css"
  ELSE "js"

C30_SameTargetMapping ==
  [][\A r \in DOMAIN run :
       LET op == CurrentOp(r)
           accepted == normalizeFilePath(op.file_path)
       IN (/\ CodeStep(r)
           /\ IsWrite(op) /\ op.content # <<>>
           /\ ~ReferencesExternalFile(op.content))
          => IF accepted \in validPaths
             THEN /\ mapFilePath(op.file_path) = FragmentOf(accepted)
                  /\ Frag(run'[r], FragmentOf(accepted)) = op.content
             ELSE /\ mapFilePath(op.file_path) \notin Fragments
                  /\ \A fp \in Fragments :
                       Frag(run'[r], fp) = Frag(run[r], fp)]_vars

(***************************************************************************)
(* C23: no retry within a cycle: an invocation of the Orchestrator asks    *)
(* the language model at most once, and a batch asks the image             *)
(* collaborator at most once per image operation, in the order of the      *)
(* list, whether the request succeeds or fails.                            *)
(***************************************************************************)
\* the names of the image operations of a batch that carry a name and a
\* prompt, in list order
RECURSIVE ImageNames(_)
ImageNames(toolCalls) ==
  IF toolCalls = <<>> THEN <<>>
  ELSE LET op == Head(toolCalls)
           rest == ImageNames(Tail(toolCalls))
       IN IF op.tool_name = "generate_image" /\ op.name # "" /\ op.prompt # ""
          THEN <<op.name>> \o rest
          ELSE rest

C23_NoRetryWithinCycle ==
  /\ \A o \in DOMAIN calls : calls[o].modelCalls <= 1
  /\ \A r \in DOMAIN run :
       /\ IsPrefix(run[r].imageRequests, ImageNames(run[r].body.toolCalls))
       /\ run[r].pc \in {"code", "commit"}
            => run[r].imageRequests = ImageNames(run[r].body.toolCalls)

\* a batch of two image operations whose first request failed has been
\* committed after one request for each
C23_Witness ==
  \E r \in DOMAIN run :
    /\ run[r].status = 200
    /\ Len(run[r].body.toolCalls) = 2
    /\ run[r].actionsSummary[1].kind = "Failed to generate image"
    /\ run[r].imageRequests = <<"ship", "rock">>

(***************************************************************************)
(* C29: the stages of a batch run in a fixed order whatever the positions  *)
(* of the operations in the list: the image stage changes no fragment,     *)
(* substitution starts when every image operation of the list has its      *)
(* summary line, and after it the operations that are not image            *)
(* operations are applied one by one in list order, each to the fragments  *)
(* the previous one left.                                                  *)
(***************************************************************************)
ImageLines ==
  {"Generated image", "Failed to generate image",
   "Skipped an image generation call"}

\* the lines that end the iteration of a code operation
CodeLines ==
  {"Skipped write_file", "Wrote content to", "ERROR: external references",
   "Skipped replace_lines", "ERROR replacing lines", "Rolled back HTML",
   "Replaced lines", "Skipped unknown tool"}

Lines(R, kinds) ==
  Cardinality({k \in 1..Len(R.actionsSummary) : R.actionsSummary[k].kind \in kinds})

RECURSIVE OtherOps(_)
OtherOps(toolCalls) ==
  IF toolCalls = <<>> THEN <<>>
  ELSE IF Head(toolCalls).tool_name = "generate_image"
  THEN OtherOps(Tail(toolCalls))
  ELSE <<Head(toolCalls)>> \o OtherOps(Tail(toolCalls))

ImageOps(toolCalls) ==
  Cardinality({k \in 1..Len(toolCalls) : toolCalls[k].tool_name = "generate_image"})

C29_StagesInFixedOrder ==
  [][\A r \in DOMAIN run :
       LET R == run[r]
           S == run'[r]
       IN /\ (R.pc = "images" /\ S.pc = "images" /\ S # R)
               => /\ \A fp \in Fragments : Frag(S, fp) = Frag(R, fp)
                  /\ Lines(S, ImageLines) = Lines(R, ImageLines) + 1
                  /\ Lines(S, CodeLines) = 0
          /\ SubstitutionStep(r)
               => /\ Lines(R, ImageLines) = ImageOps(R.body.toolCalls)
                  /\ Lines(R, CodeLines) = 0
          /\ (R.pc = "code" /\ S # R /\ S.pc # "commit")
               => LET others == OtherOps(R.body.toolCalls)
                      k == Lines(R, CodeLines) + 1
                  IN /\ k <= Len(others)
                     /\ Lines(R, ImageLines) = ImageOps(R.body.toolCalls)
                     /\ LET M == codeModification(R, others[k])
                        IN /\ \A fp \in Fragments : Frag(S, fp) = Frag(M, fp)
                           /\ S.actionsSummary = M.actionsSummary]_vars

\* a batch with its image operation between a write and a replace has been
\* committed: the image came first, then the substitution, then the write
\* and the replace
C29_Witness ==
  \E r \in DOMAIN run :
    /\ run[r].status = 200
    /\ run[r].body.toolCalls =
         <<WriteFile("css_code", <<"a">>), GenerateImage("ship", "a ship"),
           ReplaceLinesCall("js_code", 1, 1, <<"b">>)>>
    /\ run[r].actionsSummary =
         <<Line("Generated image", "ship"),
           LineRange("Replaced image placeholders", "", 1, 0),
           Line("Wrote content to", "css"),
           LineRange("Replaced lines", "js", 1, 1)>>

(***************************************************************************)
(* Properties of the sandbox component.                                    *)
(***************************************************************************)
\* the wrapper elements, in the spellings a fragment can have them
WrapperTokens ==
  {Doctype, "<!doctype html>", "<html>", "<html lang='en'>", "<head>",
   "<body>", "<body class='game'>"}

HasWrapper(html) == Count(html, WrapperTokens) > 0

\* the diagnostics about wrapper elements
WrapperDiagnostics ==
  {"FRAGMENT ERROR: html_code should not contain <!DOCTYPE html>",
   "FRAGMENT ERROR: html_code should not contain <html> tag",
   "FRAGMENT ERROR: html_code should not contain <head> tag",
   "FRAGMENT ERROR: html_code should not contain <body> tag",
   "STRUCTURAL: Missing HTML document structure"}

\* part is empty or occurs in doc
ContainsText(doc, part) ==
  \/ part = <<>>
  \/ \E i \in 1..Len(doc) :
       /\ i + Len(part) - 1 <= Len(doc)
       /\ SubSeq(doc, i, i + Len(part) - 1) = part

\* C24: after a render of a non-empty structure fragment, the diagnostics
\* have at least one about wrappers when the fragment contains a doctype,
\* <html>, <head> or <body> element, and none about wrappers when it
\* contains none of them.
C24_WrapperDiagnosticsIffWrapper ==
  (page.rendered /\ page.htmlCode # <<>>)
    => (HasWrapper(page.htmlCode)
          <=> \E i \in 1..Len(page.diagnostics) :
                page.diagnostics[i] \in WrapperDiagnostics)

\* C25: after a render, the document of the page contains the structure,
\* the style and the behavior fragment it was given, whatever they are.
C25_DocumentNeverWithheld ==
  page.rendered
    => /\ ContainsText(page.constructedHtml, page.htmlCode)
       /\ ContainsText(page.constructedHtml, page.cssCode)
       /\ ContainsText(page.constructedHtml, page.jsCode)

(***************************************************************************)
(* Properties of the error hand-over.                                      *)
(***************************************************************************)
\* the invocations of orchestrate-changes that carry a report and no user
\* instruction
ReportCalls(cs) ==
  {o \in DOMAIN cs : cs[o].fn = "orchestrate-changes"
                       /\ cs[o].errorLog # "" /\ cs[o].userPrompt = ""}

CycleIds == {"o1", "i1"} \cup {ReportCycles[j] : j \in 1..Len(ReportCycles)}

\* C22: an invocation that has sent its request to the language model
\* eventually responds, and so does a run of the Executor that has reached
\* its image requests, whether or not the gateway ever answers.
C22_EveryStartedCycleEnds ==
  \A o \in CycleIds :
    /\ (o \in DOMAIN calls /\ calls[o].pc = "model")
         ~> (o \in DOMAIN calls /\ calls[o].pc = "responded")
    /\ (o \in DOMAIN run /\ run[o].pc = "images")
         ~> (o \in DOMAIN run /\ run[o].pc = "responded")

(***************************************************************************)
(* Recoverable failures.                                                   *)
(***************************************************************************)
\* op, which is not an image call, fails recoverably on the fragments L: it
\* is of an unknown kind, lacks a parameter, or is a replace whose range is
\* not within its target
RecoverableFailure(L, op) ==
  \/ op.tool_name \notin {"write_file", "replace_lines", "generate_image"}
  \/ op.tool_name = "write_file" /\ (op.file_path = "" \/ ~op.hasContent)
  \/ op.tool_name = "replace_lines"
       /\ (op.file_path = "" \/ ~op.hasLines \/ ~op.hasContent)
  \/ /\ IsReplace(op)
     /\ mapFilePath(op.file_path) \in Fragments
     /\ ~InRange(Frag(L, mapFilePath(op.file_path)), op.start_line, op.end_line)

\* no image of the run was generated and every other operation of its batch
\* fails recoverably on the stored fragments
AllFailRecoverably(row, R) ==
  /\ R.imageUrlMap = <<>>
  /\ \A k \in 1..Len(R.body.toolCalls) :
       LET op == R.body.toolCalls[k]
       IN op.tool_name # "generate_image" => RecoverableFailure(row, op)

\* r takes one iteration of the STAGE 1 loop in this step and no image is
\* generated in it
FailedImageStep(r) ==
  /\ run[r].pc = "images"
  /\ run[r].i <= Len(imageGenerationCalls(run[r].body.toolCalls))
  /\ run'[r] # run[r]
  /\ run'[r].imageUrlMap = run[r].imageUrlMap

\* C31: with one handler at a time, an operation that fails recoverably (an
\* image that is not generated, an unknown kind, a missing parameter, a
\* replace out of range) leaves the three fragments as they were, adds one
\* line to the summary and does not end the batch; and the terminal update
\* of a batch in which every operation failed so writes the three fragments
\* that were stored, the stored history with one assistant turn more, and
\* the status coding_complete, with one summary line per operation.
C31_AllRecoverableBatchCompletes ==
  [][\A r \in DOMAIN run :
       LET R == run[r]
           S == run'[r]
           sid == R.body.sessionId
       IN /\ ( \/ FailedImageStep(r)
               \/ CodeStep(r) /\ RecoverableFailure(R, CurrentOp(r)) )
               => /\ \A fp \in Fragments : Frag(S, fp) = Frag(R, fp)
                  /\ Len(S.actionsSummary) = Len(R.actionsSummary) + 1
                  /\ S.status = 0
          /\ ( /\ R.pc = "commit" /\ S.status = 200
               /\ sid \in DOMAIN db
               /\ AllFailRecoverably(db[sid], R) )
               => /\ Len(R.actionsSummary) = Len(R.body.toolCalls)
                  /\ db'[sid].html_code = db[sid].html_code
                  /\ db'[sid].css_code = db[sid].css_code
                  /\ db'[sid].js_code = db[sid].js_code
                  /\ Len(db'[sid].chat_history) = Len(db[sid].chat_history) + 1
                  /\ IsPrefix(db[sid].chat_history, db'[sid].chat_history)
                  /\ db'[sid].chat_history[Len(db'[sid].chat_history)].role
                       = "assistant"
                  /\ db'[sid].status = "coding_complete"]_vars

\* a batch of a replace out of range, an operation of an unknown kind and an
\* image that failed has been committed
C31_Witness ==
  \E r \in DOMAIN run :
    /\ run[r].status = 200
    /\ run[r].body.toolCalls =
         <<ReplaceLinesCall("css_code", 0, 1, <<"a">>), NoParams("delete_file"),
           GenerateImage("ship", "a ship")>>
    /\ run[r].imageUrlMap = <<>>
    /\ db["s1"].status = "coding_complete"
    /\ db["s1"].css_code = Placeholders
    /\ Len(db["s1"].chat_history) = Len(History0) + 1

(***************************************************************************)
(* The summarizer.                                                         *)
(***************************************************************************)
\* r is past its last operation and takes the summarizer step
SummarizeStep(r) ==
  /\ run[r].pc = "code"
  /\ run[r].i > Len(codeModificationCalls(run[r].body.toolCalls))
  /\ run'[r] # run[r]

\* C32: whatever the request to the summarizer ends in, the run goes on to
\* its terminal update with the fragments and assets it had; after a failed
\* request (rejected fetch, response not ok, response without text) it
\* differs from the run after an answered one in the message only, which is
\* the default message; and the terminal update writes the fragments, the
\* assets, the status coding_complete and a turn with that message.
C32_SummarizerFailureNotFatal ==
  [][\A r \in DOMAIN run :
       LET R == run[r]
           S == run'[r]
           sid == R.body.sessionId
       IN /\ SummarizeStep(r)
               => /\ S.pc = "commit" /\ S.status = 0
                  /\ \A outcome \in SummarizerOutcomes \ {"ok"} :
                       /\ summarize(R, outcome) =
                            [summarize(R, "ok") EXCEPT
                               !.assistantChatResponse = DefaultChatResponse]
                       /\ summarize(R, outcome).html_code = R.html_code
                       /\ summarize(R, outcome).css_code = R.css_code
                       /\ summarize(R, outcome).js_code = R.js_code
                       /\ summarize(R, outcome).asset_urls = R.asset_urls
          /\ (R.pc = "commit" /\ S.status = 200 /\ sid \in DOMAIN db)
               => /\ db'[sid].html_code = R.html_code
                  /\ db'[sid].css_code = R.css_code
                  /\ db'[sid].js_code = R.js_code
                  /\ db'[sid].asset_urls = R.asset_urls
                  /\ db'[sid].status = "coding_complete"
                  /\ db'[sid].chat_history[Len(db'[sid].chat_history)] =
                       Turn("assistant", R.assistantChatResponse)]_vars

\* a batch that generated an image and wrote the style fragment has been
\* committed after its request to the summarizer failed
C32_Witness ==
  \E r \in DOMAIN run :
    /\ run[r].status = 200
    /\ run[r].assistantChatResponse = DefaultChatResponse
    /\ run[r].body.toolCalls =
         <<GenerateImage("ship", "a ship"), WriteFile("css_code", <<"a">>)>>
    /\ db["s1"].css_code = <<"a">>
    /\ db["s1"].asset_urls = <<publicUrl("s1", "ship")>>
    /\ db["s1"].status = "coding_complete"
    /\ db["s1"].chat_history =
         Append(History0, Turn("assistant", DefaultChatResponse))

(***************************************************************************)
(* The plan and the error report.                                          *)
(***************************************************************************)
\* C33: no step of an invocation of orchestrate-changes and no step of a
\* run of execute-tool-calls changes the plan or the error report of any
\* stored session, whenever the report was stored; and the context of an
\* invocation that brings no report of its own carries the stored report.
C33_PlanAndReportKept ==
  [][/\ ( \/ \E r \in DOMAIN run : run'[r] # run[r]
          \/ \E o \in DOMAIN calls :
               calls[o].fn = "orchestrate-changes" /\ calls'[o] # calls[o] )
          => \A sid \in DOMAIN db :
               /\ db'[sid].error_log = db[sid].error_log
               /\ db'[sid].game_plan = db[sid].game_plan
     /\ \A o \in DOMAIN calls :
          ( /\ calls[o].fn = "orchestrate-changes"
            /\ calls[o].pc = "request" /\ calls'[o].pc = "model"
            /\ calls[o].errorLog = "" )
            => calls'[o].error_log = db[calls[o].sessionId].error_log]_vars

\* the cycle of a first report has been committed, and the report of the
\* game, which was stored while that cycle was in flight (it started no
\* cycle of its own), is still stored; or a cycle of a user instruction has
\* been committed that had the stored report in its context, and the report
\* is still stored
C33_Witness ==
  \/ /\ "e1" \in DOMAIN run /\ run["e1"].status = 200
     /\ "e2" \notin DOMAIN calls
     /\ page.reports = <<>> /\ page.gameErrors = 1
     /\ page.component = "validateStructure"
     /\ calls["e1"].errorLog = "STRUCTURAL: Missing HTML document structure"
     /\ db["s1"].error_log = RuntimeReport
     /\ db["s1"].status = "coding_complete"
  \/ /\ "o1" \in DOMAIN run /\ run["o1"].status = 200
     /\ calls["o1"].errorLog = "" /\ calls["o1"].error_log = RuntimeReport
     /\ db["s1"].error_log = RuntimeReport
     /\ db["s1"].game_plan = "plan"

(***************************************************************************)
(* The structure fragment stays.                                           *)
(***************************************************************************)
\* C34: with one handler at a time, no step of a run of execute-tool-calls
\* takes a stored structure fragment that is not empty to an empty one.
C34_StructureStaysNonEmpty ==
  [][\A s \in DOMAIN db :
       (db[s].html_code # <<>> /\ \E r \in DOMAIN run : run'[r] # run[r])
         => db'[s].html_code # <<>>]_vars

\* a batch whose one operation would have emptied the structure fragment (a
\* replace of its only line by nothing, or a write of the empty text) has
\* been committed, and the fragment is the stored one
C34_Witness ==
  \E r \in DOMAIN run :
    /\ run[r].status = 200
    /\ \/ /\ run[r].body.toolCalls = <<ReplaceLinesCall("html_code", 1, 1, <<>>)>>
          /\ db["s1"].html_code = <<"a">>
          /\ HasLine(run[r], "Rolled back HTML")
       \/ /\ run[r].body.toolCalls = <<WriteFile("html", <<>>)>>
          /\ db["s1"].html_code = BodyFragment
          /\ HasLine(run[r], "Skipped write_file")
    /\ db["s1"].status = "coding_complete"

(***************************************************************************)
(* Deletion by replace.                                                    *)
(***************************************************************************)
\* C38: an applied ranged replace with the empty content and a range within
\* the target leaves the target with (end - start + 1) lines fewer.
C38_EmptyReplaceDeletesLines ==
  [][\A r \in DOMAIN run :
       LET op == CurrentOp(r)
           fp == mapFilePath(op.file_path)
       IN (Applied(r) /\ op.content = <<>>)
            => Len(split(Frag(run'[r], fp)))
                 = Len(split(Frag(run[r], fp)))
                     - (op.end_line - op.start_line + 1)]_vars

(***************************************************************************)
(* The turns of the history.                                               *)
(***************************************************************************)
\* C35: every turn of every stored history has the role user or assistant
\* and a content that is defined.
C35_TurnsWellFormed ==
  \A s \in DOMAIN db :
    \A k \in 1..Len(db[s].chat_history) :
      /\ db[s].chat_history[k].role \in {"user", "assistant"}
      /\ db[s].chat_history[k].content # ""

(***************************************************************************)
(* The history of one cycle.                                               *)
(***************************************************************************)
\* o is the only cycle there is: no other invocation and no other run
OnlyCycle(o) ==
  /\ DOMAIN calls = {o}
  /\ DOMAIN run \subseteq {o}
  /\ calls[o].fn = "orchestrate-changes"
  /\ calls[o].sessionId \in DOMAIN db

\* C36: for a cycle that is the only one, with H the history the
\* Orchestrator read: an Orchestrator step that answers with an error leaves
\* the stored history H; the Executor step that answers 200 leaves H, the
\* user turn, the interim assistant turn and the summary turn, in this
\* order; and an Executor step that answers 500 leaves H, the user turn and
\* the interim turn, and the status orchestrating.
C36_HistoryGrowsByOutcome ==
  [][\A o \in DOMAIN calls :
       OnlyCycle(o) =>
         LET C == calls[o]
             sid == C.sessionId
             H == C.chat_history
             user == Turn("user", C.userPrompt)
             interim == Turn("assistant", C.chatResponse)
         IN /\ (C.status = 0 /\ calls'[o].status \notin {0, 200})
                 => db'[sid].chat_history = db[sid].chat_history
            /\ (o \in DOMAIN run /\ run[o].status = 0 /\ run'[o].status = 200)
                 => db'[sid].chat_history =
                      H \o <<user, interim,
                             Turn("assistant", run[o].assistantChatResponse)>>
            /\ (o \in DOMAIN run /\ run[o].status = 0 /\ run'[o].status = 500)
                 => /\ db'[sid].chat_history = H \o <<user, interim>>
                    /\ db'[sid].status = "orchestrating"]_vars

(***************************************************************************)
(* The change summary and the frame of a batch.                            *)
(***************************************************************************)
SuccessLines == {"Wrote content to", "Replaced lines"}

\* C37: an iteration of the STAGE 3 loop that records a success line is one
\* of an operation whose target is one of the three fragments and whose
\* content is now in that fragment: the fragment is the written content, or
\* it was not empty, the range was within it and it is the result of the
\* replace.
C37_SummaryIsFaithful ==
  [][\A r \in DOMAIN run :
       LET R == run[r]
           S == run'[r]
           op == CurrentOp(r)
           fp == mapFilePath(op.file_path)
       IN ( /\ CodeStep(r)
            /\ Len(S.actionsSummary) = Len(R.actionsSummary) + 1
            /\ LastLine(S).kind \in SuccessLines )
            => /\ fp \in Fragments
               /\ IsWrite(op) => Frag(S, fp) = op.content
               /\ IsReplace(op)
                    => /\ Frag(R, fp) # <<>>
                       /\ InRange(Frag(R, fp), op.start_line, op.end_line)
                       /\ Frag(S, fp) =
                            replaceLines(Frag(R, fp), op.start_line,
                                         op.end_line, op.content).result]_vars

\* fragment fp is the target of a write or of a replace of the batch
Targeted(toolCalls, fp) ==
  \E k \in 1..Len(toolCalls) :
    /\ toolCalls[k].tool_name \in {"write_file", "replace_lines"}
    /\ mapFilePath(toolCalls[k].file_path) = fp

\* C39: with one handler at a time, the terminal update of a batch in which
\* no image was generated leaves every stored fragment as it was that no
\* write_file and no replace_lines of the batch has for its target.
C39_UntargetedFragmentsKept ==
  [][\A r \in DOMAIN run :
       LET R == run[r]
           sid == R.body.sessionId
       IN ( /\ R.pc = "commit" /\ run'[r].status = 200
            /\ sid \in DOMAIN db
            /\ ~HasLine(R, "Generated image") )
            => \A fp \in Fragments :
                 ~Targeted(R.body.toolCalls, fp)
                   => Frag(db'[sid], fp) = Frag(db[sid], fp)]_vars

\* a batch whose image failed and whose one write went to the behavior
\* fragment has been committed: the style fragment still has its
\* placeholders and the structure fragment is the stored one
C39_Witness ==
  \E r \in DOMAIN run :
    /\ run[r].status = 200
    /\ run[r].body.toolCalls =
         <<GenerateImage("ship", "a ship"), WriteFile("js_code", <<SQ, "ship", PNG, SQ>>)>>
    /\ run[r].imageRequests = <<"ship">>
    /\ ~HasLine(run[r], "Generated image")
    /\ db["s1"].css_code = Placeholders
    /\ db["s1"].html_code = BodyFragment
    /\ db["s1"].js_code = <<SQ, "ship", PNG, SQ>>

(***************************************************************************)
(* initialize-game.                                                        *)
(***************************************************************************)
\* C40: a step of an invocation of initialize-game that answers 200 leaves
\* the session it names with the status planning_complete, the plan of the
\* model's response and a history of two turns, the user's prompt and the
\* assistant's chat_response, and leaves every other session as it was;
\* every other step of the invocation, the ones that answer with an error
\* included, leaves the table as it was.
C40_PlanCreatedOrNothingChanged ==
  [][\A i \in DOMAIN calls :
       (calls[i].fn = "initialize-game" /\ calls'[i] # calls[i])
         => IF calls'[i].status = 200
            THEN LET id == calls'[i].sessionId
                 IN /\ id \in DOMAIN db'
                    /\ db'[id].status = "planning_complete"
                    /\ db'[id].game_plan = calls[i].reply.gamePlan
                    /\ db'[id].chat_history =
                         <<Turn("user", calls[i].userPrompt),
                           Turn("assistant", calls[i].reply.chat_response)>>
                    /\ \A s \in DOMAIN db : s # id => db'[s] = db[s]
                    /\ DOMAIN db' = DOMAIN db \cup {id}
            ELSE db' = db]_vars

\* initialize-game has answered 200 for the stored session, which now has
\* the new plan and the two turns in place of its four
C40_Witness ==
  /\ "i1" \in DOMAIN calls
  /\ calls["i1"].status = 200
  /\ calls["i1"].sessionId = "s1"
  /\ db["s1"].game_plan = "plan B"
  /\ db["s1"].status = "planning_complete"
  /\ db["s1"].chat_history =
       <<Turn("user", "make a maze"), Turn("assistant", "Here is the new plan.")>>

====
